---------------------------- MODULE Spec2Model ----------------------------
(***************************************************************************)
(* OGER: dictionary-based entity recognition (oger/er/entity_recognition)  *)
(* with abbreviation learning, the document-level driver                   *)
(* (oger/doc/document) and the span resolvers (oger/post/submatches).      *)
(*                                                                         *)
(* Python dicts are functions with a finite DOMAIN, tuples are sequences,  *)
(* sets are sets.  Python's 0-based half-open slices x[i:j] are            *)
(* SubSeq(x, i+1, j).                                                      *)
(***************************************************************************)
EXTENDS Integers, Sequences, FiniteSets, TLC

(***************************************************************************)
(* Bounds.                                                                 *)
(***************************************************************************)
\* longest sentence of a document, in words
MaxLen == 4
\* longest sentence given to a single recognize_entities call, in words
MaxMatchLen == 3
\* most short forms one document introduces
MaxAbbrevs == 1
\* most articles of a collection, most sentences of an article
MaxArticles == 2
MaxSentences == 2
\* most entities of a sentence given to a span filter, and the greatest
\* character offset of such an entity
MaxEntities == 3
MaxOffset == 4
\* most entity recognizers of a pipeline, and most postfilters
MaxRecognizers == 2
MaxPostfilters == 1
\* most rows of a term list file, and most fields of a row
MaxRows == 2
\* workers of a run and pointers fed to them
MaxWorkers == 2
MaxPointers == 2
\* the steps of a normalizer cascade and the tokens it is applied to
MaxSteps == 2
MaxTokens == 2
MaxFields == 7

(***************************************************************************)
(* Words, tokenizer, normalizer.                                           *)
(***************************************************************************)
\* the words a sentence is made of; a sentence text is its words joined by
\* single blanks
Words == {"t", "dm", "DM", "(", ")"}

Parens == {"(", ")"}

\* str.swapcase in the place of str.lower
lowercase_swapcase(token) ==
    CASE token = "DM" -> "dm"
      [] token = "dm" -> "DM"
      [] token = "T"  -> "t"
      [] token = "t"  -> "T"
      [] token = "C"  -> "c"
      [] token = "c"  -> "C"
      [] OTHER -> token

\* str.lower on the words of the model
lowercase(token) ==
    CASE token = "DM" -> "dm"
      [] token = "Dm" -> "dm"
      [] token = "T"  -> "t"
      [] token = "C"  -> "c"
      [] OTHER -> token

\* unicodedata.normalize(form, token): of the tokens of the model only
\* U+2102, the double-struck capital C, has a compatibility decomposition
\* (to "C"), which the forms NFKC and NFKD apply
unicode_normalize(form, token) ==
    IF form \in {"NFKC", "NFKD"} /\ token = "U+2102" THEN "C" ELSE token

\* the normalizer steps of a cascade, as term_normalization.load makes them
\* from their names: "lowercase", and "mask-<repl>-<target>" with the target
\* tokens read from a file
Lowercase == [name |-> "lowercase"]
Unicode(form) == [name |-> "unicode", form |-> form]
Mask(repl, targets) == [name |-> "mask", repl |-> repl, targets |-> targets]

\* the function mask() that _load_mask returns
mask(step, token) == IF token \in step.targets THEN step.repl ELSE token

\* one normalizer function applied to a token
ApplyStep(step, token) ==
    CASE step.name = "lowercase" -> lowercase(token)
      [] step.name = "unicode" -> unicode_normalize(step.form, token)
      [] OTHER -> mask(step, token)

\* EntityRecognizer._normalize: the cascade of the configured normalizers
RECURSIVE normalize_token(_, _)
normalize_token(normalizers, token) ==
    IF normalizers = << >> THEN token
    ELSE normalize_token(Tail(normalizers),
                         ApplyStep(Head(normalizers), token))

\* EntityRecognizer.normalize
normalize(normalizers, tokens) ==
    [k \in 1..Len(tokens) |-> normalize_token(normalizers, tokens[k])]

\* TermTokenizer.span_tokenize_words: triples (token, start, end) with the
\* character offsets into the blank-joined text, from the k-th word on,
\* which starts at offset `at'; a parenthesis is a token only with
\* abbrev_token
RECURSIVE SpanTokFrom(_, _, _, _)
SpanTokFrom(words, abbrev_detection, k, at) ==
    IF k > Len(words) THEN << >>
    ELSE LET end  == at + Len(words[k])
             rest == SpanTokFrom(words, abbrev_detection, k + 1, end + 1)
         IN  IF words[k] \in Parens /\ ~abbrev_detection THEN rest
             ELSE << <<words[k], at, end>> >> \o rest

span_tokenize_words(words, abbrev_detection) ==
    SpanTokFrom(words, abbrev_detection, 1, 0)

\* TermTokenizer.tokenize_words
tokenize_words(words, abbrev_detection) ==
    LET sp == span_tokenize_words(words, abbrev_detection)
    IN  [k \in 1..Len(sp) |-> sp[k][1]]

(***************************************************************************)
(* Python values.                                                          *)
(***************************************************************************)
None == [k |-> "None"]
Pop == [k |-> "pop"]
Val(v) == [k |-> "val", v |-> v]

\* p or q
Or(p, q) == IF p = None THEN q ELSE p

\* dict with key k set to v
Put(d, k, v) == [x \in (DOMAIN d) \cup {k} |-> IF x = k THEN v ELSE d[x]]

\* dict.pop(k, None)
Del(d, k) == [x \in (DOMAIN d) \ {k} |-> d[x]]

EmptyDict == [x \in {} |-> 0]

\* the elements of S as a tuple in descending order
RECURSIVE SortedTuple_descending(_)
SortedTuple_descending(S) ==
    IF S = {} THEN << >>
    ELSE LET x == CHOOSE y \in S : \A z \in S : z <= y
         IN  <<x>> \o SortedTuple_descending(S \ {x})

\* tuple(sorted(s)) of a set of integers
RECURSIVE SortedTuple(_)
SortedTuple(S) ==
    IF S = {} THEN << >>
    ELSE LET m == CHOOSE x \in S : \A y \in S : x <= y
         IN  <<m>> \o SortedTuple(S \ {m})

Range(s) == {s[k] : k \in 1..Len(s)}


(***************************************************************************)
(* Term index construction (EntityRecognizer.__init__).                    *)
(***************************************************************************)
\* EntityRecognizer.import_stopwords: the stopwords are kept normalized
import_stopwords(normalizers, abbrev_detection, stopword_lines) ==
    {normalize(normalizers, tokenize_words(w, abbrev_detection)) :
        w \in stopword_lines}

\* a lookup that ignores the stopwords: always the normalized tokens
em_filter_normalized(stopwords, norm, exact, start, stop) ==
    SubSeq(norm, start + 1, stop)

\* EntityRecognizer.em_filter: exact tokens for stopwords, else normalized
em_filter(stopwords, norm, exact, start, stop) ==
    LET n == SubSeq(norm, start + 1, stop)
    IN  IF n \in stopwords THEN SubSeq(exact, start + 1, stop) ELSE n

\* a _cached_entry that blanks every field the two rows disagree on
cached_entry_blank(previous, new) ==
    LET m == IF Len(previous) < Len(new) THEN Len(previous) ELSE Len(new)
    IN  [k \in 1..m |-> IF previous[k] = new[k] THEN previous[k] ELSE ""]

\* EntityRecognizer._cached_entry: zip() stops at the shorter tuple, and
\* each position gets the previous object if equal, else the new one
cached_entry(previous, new) ==
    LET m == IF Len(previous) < Len(new) THEN Len(previous) ELSE Len(new)
    IN  [k \in 1..m |-> IF previous[k] = new[k] THEN previous[k] ELSE new[k]]

\* one iteration of the row loop of load_termlist_from_file; acc.error is
\* set where the code raises ValueError
LoadRow(acc, row, normalizers, abbrev_detection, stopwords, n_fields) ==
    LET toks  == tokenize_words(row.term, abbrev_detection)
        norm  == normalize(normalizers, toks)
        term  == em_filter(stopwords, norm, toks, 0, Len(norm))
        tf    == acc.term_first
        tf2   == IF Len(norm) = 0 THEN tf          \* IndexError: warning
                 ELSE IF norm[1] \in DOMAIN tf
                      THEN Put(tf, norm[1], tf[norm[1]] \cup {Len(term)})
                      ELSE Put(tf, norm[1], {Len(term)})
        entry == cached_entry(acc.entry, row.fields)
        ft    == acc.full_terms
        ft2   == IF term \in DOMAIN ft
                 THEN Put(ft, term, ft[term] \cup {entry})
                 ELSE Put(ft, term, {entry})
    IN  IF acc.error THEN acc
        ELSE IF Len(entry) # n_fields
             THEN [acc EXCEPT !.error = TRUE, !.term_first = tf2,
                              !.entry = entry]
             ELSE [error |-> FALSE, term_first |-> tf2, full_terms |-> ft2,
                   entry |-> entry]

RECURSIVE LoadRows(_, _, _, _, _, _, _)
LoadRows(acc, rows, k, normalizers, abbrev_detection, stopwords, n_fields) ==
    IF k > Len(rows) THEN acc
    ELSE LoadRows(LoadRow(acc, rows[k], normalizers, abbrev_detection,
                          stopwords, n_fields),
                  rows, k + 1, normalizers, abbrev_detection, stopwords,
                  n_fields)

\* EntityRecognizer.load_termlist_from_file: the index of a term list; the
\* length sets end up as sorted tuples
load_termlist_from_file(rows, normalizers, abbrev_detection, stopwords, n_fields) ==
    LET acc == LoadRows([error |-> FALSE, term_first |-> EmptyDict,
                         full_terms |-> EmptyDict,
                         entry |-> [k \in 1..n_fields |-> ""]],
                        rows, 1, normalizers, abbrev_detection, stopwords,
                        n_fields)
    IN  [error |-> acc.error,
         term_first |-> [w \in DOMAIN acc.term_first |->
                            SortedTuple(acc.term_first[w])],
         full_terms |-> acc.full_terms]


(***************************************************************************)
(* Abbreviation learning (AbbrevDetector).  `self' is the engine: a record *)
(* of stopwords, term_first, full_terms, abbrevs and the two settings      *)
(* normalizers and abbrev_detection.                                       *)
(***************************************************************************)
\* AbbrevDetector.update_registry: merge with the previous signature
update_registry(abbrevs, toks, stpw, first, full) ==
    IF toks \in DOMAIN abbrevs
    THEN LET p == abbrevs[toks]
         IN  Put(abbrevs, toks,
                 <<Or(p[1], stpw), Or(p[2], first), Or(p[3], full)>>)
    ELSE Put(abbrevs, toks, <<stpw, first, full>>)

\* a register_abbrev that replaces the entries of an existing key
register_abbrev_overwrite(self, toks, norm, entries) ==
    LET new_stop     == norm \notin self.stopwords
        mod_stopword == IF new_stop THEN Val(norm) ELSE None
        stopwords2   == IF new_stop THEN self.stopwords \cup {norm}
                        ELSE self.stopwords
        tf           == self.term_first
        has_first    == norm[1] \in DOMAIN tf
        mod_first    == IF ~has_first THEN Pop
                        ELSE IF Len(toks) \notin Range(tf[norm[1]])
                             THEN Val(tf[norm[1]]) ELSE None
        tf2          == IF ~has_first THEN Put(tf, norm[1], <<Len(toks)>>)
                        ELSE IF Len(toks) \notin Range(tf[norm[1]])
                             THEN Put(tf, norm[1],
                                      SortedTuple({Len(toks)}
                                                  \cup Range(tf[norm[1]])))
                             ELSE tf
        ft           == self.full_terms
        has_full     == toks \in DOMAIN ft
        grows        == has_full /\ ~(entries \subseteq ft[toks])
        mod_full     == IF ~has_full THEN Pop
                        ELSE IF grows THEN Val(ft[toks]) ELSE None
        ft2          == IF ~has_full THEN Put(ft, toks, entries)
                        ELSE IF grows THEN Put(ft, toks, entries)
                             ELSE ft
    IN  [self EXCEPT !.stopwords = stopwords2,
                     !.term_first = tf2,
                     !.full_terms = ft2,
                     !.abbrevs = update_registry(self.abbrevs, toks,
                                     mod_stopword, mod_first, mod_full)]

\* AbbrevDetector.register_abbrev
register_abbrev(self, toks, norm, entries) ==
    LET new_stop     == norm \notin self.stopwords
        mod_stopword == IF new_stop THEN Val(norm) ELSE None
        stopwords2   == IF new_stop THEN self.stopwords \cup {norm}
                        ELSE self.stopwords
        tf           == self.term_first
        has_first    == norm[1] \in DOMAIN tf
        mod_first    == IF ~has_first THEN Pop
                        ELSE IF Len(toks) \notin Range(tf[norm[1]])
                             THEN Val(tf[norm[1]]) ELSE None
        tf2          == IF ~has_first THEN Put(tf, norm[1], <<Len(toks)>>)
                        ELSE IF Len(toks) \notin Range(tf[norm[1]])
                             THEN Put(tf, norm[1],
                                      SortedTuple({Len(toks)}
                                                  \cup Range(tf[norm[1]])))
                             ELSE tf
        ft           == self.full_terms
        has_full     == toks \in DOMAIN ft
        grows        == has_full /\ ~(entries \subseteq ft[toks])
        mod_full     == IF ~has_full THEN Pop
                        ELSE IF grows THEN Val(ft[toks]) ELSE None
        ft2          == IF ~has_full THEN Put(ft, toks, entries)
                        ELSE IF grows THEN Put(ft, toks, ft[toks] \cup entries)
                             ELSE ft
    IN  [self EXCEPT !.stopwords = stopwords2,
                     !.term_first = tf2,
                     !.full_terms = ft2,
                     !.abbrevs = update_registry(self.abbrevs, toks,
                                     mod_stopword, mod_first, mod_full)]

\* the abbreviation pattern of _match_hook: toks[j:j+3:2] == ('(', ')')
AbbrevFollows(toks, j) ==
    /\ j + 3 <= Len(toks)
    /\ toks[j + 1] = "("
    /\ toks[j + 3] = ")"

\* a match hook that never learns
match_hook_noop(self, matches, toks, normalized, j) == self

\* a match hook that, in every engine, takes the token after a match for
\* its short form
match_hook_learns_next(self, matches, toks, normalized, j) ==
    IF j < Len(toks)
    THEN register_abbrev(self, <<toks[j + 1]>>, <<normalized[j + 1]>>,
                         matches)
    ELSE self

\* EntityRecognizer._match_hook (a no-op) and AbbrevDetector._match_hook
match_hook(self, matches, toks, normalized, j) ==
    IF self.abbrev_detection /\ AbbrevFollows(toks, j)
    THEN register_abbrev(self, <<toks[j + 2]>>, <<normalized[j + 2]>>,
                         matches)
    ELSE self

\* one undo step of clear_abbrev_cache, for the registry entry of toks
UndoAbbrev(self, toks) ==
    LET sig == self.abbrevs[toks]
        sw  == IF sig[1] # None THEN self.stopwords \ {sig[1].v}
               ELSE self.stopwords
        tf  == IF sig[2] = Pop THEN Del(self.term_first, toks[1])
               ELSE IF sig[2] # None
                    THEN Put(self.term_first, toks[1], sig[2].v)
                    ELSE self.term_first
        ft  == IF sig[3] = Pop THEN Del(self.full_terms, toks)
               ELSE IF sig[3] # None
                    THEN Put(self.full_terms, toks, sig[3].v)
                    ELSE self.full_terms
    IN  [self EXCEPT !.stopwords = sw, !.term_first = tf, !.full_terms = ft,
                     !.abbrevs = Del(self.abbrevs, toks)]

\* AbbrevDetector.clear_abbrev_cache: undo every entry of the registry
\* (the undo steps touch disjoint or identical keys, so the iteration order
\* of the dict is fixed here to one order), then clear the registry
RECURSIVE clear_abbrev_cache(_)
clear_abbrev_cache(self) ==
    IF DOMAIN self.abbrevs = {} THEN self
    ELSE LET toks == CHOOSE t \in DOMAIN self.abbrevs : TRUE
         IN  clear_abbrev_cache(UndoAbbrev(self, toks))

\* EntityRecognizer.reset (a no-op) and AbbrevDetector.reset
reset(self) ==
    IF self.abbrev_detection THEN clear_abbrev_cache(self) ELSE self


(***************************************************************************)
(* Matching (EntityRecognizer.recognize_entities).                         *)
(***************************************************************************)
\* tuple(set): the entries of one key in a fixed order
RECURSIVE EntryTuple(_)
EntryTuple(S) ==
    IF S = {} THEN << >>
    ELSE LET e == CHOOSE x \in S : TRUE
         IN  <<e>> \o EntryTuple(S \ {e})

\* a candidate that yields its first entry only
Yields_first(position, matches) ==
    <<<<position, CHOOSE x \in matches : TRUE>>>>

\* the yields of one found candidate: (position, entry) per entry
Yields(position, matches) ==
    LET es == EntryTuple(matches)
    IN  [k \in 1..Len(es) |-> <<position, es[k]>>]

\* the inner loop over the lengths of term_first[word], from the k-th
\* length on; `lens' is the tuple the loop started with.  acc holds the
\* engine, the matches yielded so far and the abbreviations registered so
\* far in this call.
RECURSIVE ScanLengths(_, _, _, _, _, _, _)
ScanLengths(acc, sp, toks, normalized, i, lens, k) ==
    IF k > Len(lens) THEN acc
    ELSE LET j == i + lens[k]
         IN  IF j > Len(normalized) THEN acc            \* break
             ELSE LET self      == acc.self
                      candidate == em_filter(self.stopwords, normalized,
                                             toks, i, j)
                  IN  IF candidate \in DOMAIN self.full_terms
                      THEN LET position == <<sp[i + 1][2], sp[j][3]>>
                               matches  == self.full_terms[candidate]
                               hooked   == match_hook(self, matches, toks,
                                                      normalized, j)
                               acc2 ==
                                 [self |-> hooked,
                                  out  |-> acc.out \o Yields(position, matches),
                                  reg  |-> IF self.abbrev_detection
                                              /\ AbbrevFollows(toks, j)
                                           THEN acc.reg \cup
                                                {[x |-> toks[j + 2],
                                                  entries |-> matches]}
                                           ELSE acc.reg]
                           IN  ScanLengths(acc2, sp, toks, normalized, i,
                                           lens, k + 1)
                      ELSE ScanLengths(acc, sp, toks, normalized, i, lens,
                                       k + 1)

\* the outer loop over the token indices i (0-based), from i on
RECURSIVE ScanTokens(_, _, _, _, _)
ScanTokens(acc, sp, toks, normalized, i) ==
    IF i >= Len(normalized) THEN acc
    ELSE LET word == normalized[i + 1]
             tf   == acc.self.term_first
             lens == IF word \in DOMAIN tf THEN tf[word] ELSE << >>
         IN  ScanTokens(ScanLengths(acc, sp, toks, normalized, i, lens, 1),
                        sp, toks, normalized, i + 1)

\* EntityRecognizer.recognize_entities, run to exhaustion: the engine after
\* the call, the matches in the order they are yielded, and the
\* abbreviations the match hook registered
recognize_entities(self, sentence) ==
    LET sp         == span_tokenize_words(sentence, self.abbrev_detection)
        toks       == [x \in 1..Len(sp) |-> sp[x][1]]
        normalized == normalize(self.normalizers, toks)
    IN  ScanTokens([self |-> self, out |-> << >>, reg |-> {}],
                   sp, toks, normalized, 0)


(***************************************************************************)
(* Configurations: term lists, stopword lists, normalizer cascades.        *)
(***************************************************************************)
\* 5 std fields besides the term (no extra fields configured)
n_fields == 5

\* two concept records: type, preferred form, resource, native id, CUI
Entry1 == <<"gene", "p1", "r", "1", "c1">>
Entry2 == <<"disease", "p2", "r", "2", "c2">>

Row(term, fields) == [term |-> term, fields |-> fields]

\* the term lists an engine is built from
TermLists ==
    { << Row(<<"t">>, Entry1) >>,
      << Row(<<"t">>, Entry1), Row(<<"t", "t">>, Entry2) >>,
      << Row(<<"t">>, Entry1), Row(<<"t">>, Entry2) >>,
      << Row(<<"dm">>, Entry1), Row(<<"t">>, Entry2) >>,
      << Row(<<"DM">>, Entry1), Row(<<"t">>, Entry2) >>,
      << Row(<<"t", "dm">>, Entry1), Row(<<"dm">>, Entry2) >> }

\* the stopword lists (one stopword per line)
StopwordLists == { {}, {<<"dm">>} }

\* the normalizer cascades
NormalizerLists ==
    { << >>,
      << Lowercase >>,
      << Lowercase, Mask("DM", {"t"}) >> }

\* all sentences of at most MaxLen words
Sentences == UNION {[1..n -> Words] : n \in 0..MaxLen}

\* all sentences of at most MaxMatchLen words
MatchSentences == UNION {[1..n -> Words] : n \in 0..MaxMatchLen}

(***************************************************************************)
(* State.                                                                  *)
(***************************************************************************)
VARIABLES
    stopwords,          \* EntityRecognizer.stopwords
    term_first,         \* EntityRecognizer.term_first
    full_terms,         \* EntityRecognizer.full_terms
    abbrevs,            \* AbbrevDetector.abbrevs
    normalizers,        \* the names behind EntityRecognizer._normalizers
    abbrev_detection,   \* TRUE: AbbrevDetector, FALSE: EntityRecognizer
    termlist,           \* the rows of the term list the engine was built from
    stopword_lines,     \* the configured stopword list
    base,               \* history: the index right after construction
    learned,            \* history: abbreviations registered since the reset
    op,                 \* history: the last operation
    sentence,           \* the argument of the last recognize_entities call
    out,                \* the matches that call yielded, in order
    content,            \* the Article or Collection being processed
    art,                \* Collection/Exporter.recognize_entities: the article
    sent,               \* ... and the sentence the loops are at (1-based)
    id_,                \* ... and the local id_
    calls,              \* history: the calls made on the engine, in order
    entities,           \* Sentence.entities, per article and sentence
    ents,               \* a sentence's entities before a span filter
    filtered,           \* sentence.entities after the span filter
    s_text,             \* Sentence.text of the sentence of a pipeline
    s_entities,         \* Sentence.entities of that sentence
    s_calls,            \* history: the calls made on that sentence
    config,             \* the term list configuration of a constructor call
    pickle_file,        \* the cache artifact of the term list, if any
    terms,              \* what load_termlist returned or raised
    params,             \* run(**params): the force_reload settings
    n_workers,          \* run(n_workers, ...)
    master,             \* _run: the position of the master process
    q,                  \* the mp.Queue shared by master and workers
    workers,            \* the worker processes: position, pointers taken
    builds              \* history: who read the term list from its source

engvars == <<stopwords, term_first, full_terms, abbrevs, normalizers,
             abbrev_detection, termlist, stopword_lines, base, learned,
             sentence, out>>
docvars == <<content, art, sent, id_, calls, entities>>
filtvars == <<ents, filtered>>
sentvars == <<s_text, s_entities, s_calls>>
loadvars == <<config, pickle_file, terms>>
runvars == <<params, n_workers, master, q, workers, builds>>
vars == <<engvars, op, docvars, filtvars, sentvars, loadvars, runvars>>

\* the engine object
Self == [stopwords |-> stopwords, term_first |-> term_first,
         full_terms |-> full_terms, abbrevs |-> abbrevs,
         normalizers |-> normalizers, abbrev_detection |-> abbrev_detection]

\* the engine as constructed, before any document
BaseSelf == [stopwords |-> base.stopwords, term_first |-> base.term_first,
             full_terms |-> base.full_terms, abbrevs |-> EmptyDict,
             normalizers |-> normalizers,
             abbrev_detection |-> abbrev_detection]

SetSelf(self) ==
    /\ stopwords' = self.stopwords
    /\ term_first' = self.term_first
    /\ full_terms' = self.full_terms
    /\ abbrevs' = self.abbrevs
    /\ UNCHANGED <<normalizers, abbrev_detection, termlist, stopword_lines,
                   base>>

\* history of the registrations: per short form, the entries it was
\* registered with and whether it was registered once (n = 1) or several
\* times (n = 2)
Learn(known, reg) ==
    {[x |-> x,
      entries |-> UNION ({l.entries : l \in {m \in known : m.x = x}}
                         \cup {l.entries : l \in {m \in reg : m.x = x}}),
      n |-> IF Cardinality({m \in reg : m.x = x})
               + Cardinality({m \in known : m.x = x}) > 1
               \/ \E m \in known : m.x = x /\ m.n > 1
            THEN 2 ELSE 1] :
        x \in {l.x : l \in known \cup reg}}

\* EntityRecognizer.__init__ / AbbrevDetector.__init__ for one configuration
Construct(rows, stopword_list, norms, abbrev) ==
    LET sw  == import_stopwords(norms, abbrev, stopword_list)
        idx == load_termlist_from_file(rows, norms, abbrev, sw, n_fields)
    IN  /\ ~idx.error
        /\ stopwords = sw
        /\ term_first = idx.term_first
        /\ full_terms = idx.full_terms
        /\ abbrevs = EmptyDict
        /\ normalizers = norms
        /\ abbrev_detection = abbrev
        /\ termlist = rows
        /\ stopword_lines = stopword_list
        /\ base = [stopwords |-> sw, term_first |-> idx.term_first,
                   full_terms |-> idx.full_terms]

\* no document and no span filter at work
NoDocument ==
    /\ content = [kind |-> "none", articles |-> << >>]
    /\ art = 0
    /\ sent = 0
    /\ id_ = 0
    /\ calls = << >>
    /\ entities = << >>

NoFilter ==
    /\ ents = << >>
    /\ filtered = << >>

\* no sentence in a pipeline, and no constructor call observed
NoSentence ==
    /\ s_text = << >>
    /\ s_entities = << >>
    /\ s_calls = << >>

NoLoad ==
    /\ config = [k |-> "None"]
    /\ pickle_file = [k |-> "None"]
    /\ terms = [k |-> "None"]

\* no run of the pipeline
NoRun ==
    /\ params = [k |-> "None"]
    /\ n_workers = 0
    /\ master = [pc |-> "none"]
    /\ q = << >>
    /\ workers = << >>
    /\ builds = << >>

(***************************************************************************)
(* The engine over the documents of a run: any sentence may be recognized  *)
(* and reset() may come at any point.                                      *)
(***************************************************************************)
Init ==
    /\ \E rows \in TermLists, sl \in StopwordLists,
          norms \in NormalizerLists, abbrev \in BOOLEAN :
            Construct(rows, sl, norms, abbrev)
    /\ learned = {}
    /\ op = "init"
    /\ NoSentence
    /\ NoLoad
    /\ NoRun
    /\ sentence = << >>
    /\ out = << >>
    /\ NoDocument
    /\ NoFilter

\* recognize_entities(s), consumed to the end; the engine keeps what the
\* match hook changed
Recognize(s) ==
    LET r == recognize_entities(Self, s)
    IN  /\ Cardinality(DOMAIN r.self.abbrevs) <= MaxAbbrevs
        /\ SetSelf(r.self)
        /\ learned' = Learn(learned, r.reg)
        /\ op' = "recognize"
        /\ UNCHANGED <<sentence, out, docvars, filtvars, sentvars, loadvars, runvars>>

\* reset()
Reset ==
    /\ SetSelf(reset(Self))
    /\ learned' = {}
    /\ op' = "reset"
    /\ UNCHANGED <<sentence, out, docvars, filtvars, sentvars, loadvars, runvars>>

Next ==
    \/ \E s \in Sentences : Recognize(s)
    \/ Reset

Spec == Init /\ [][Next]_vars

(***************************************************************************)
(* One recognize_entities call on a freshly built engine.                  *)
(***************************************************************************)
InitMatch ==
    /\ \E rows \in TermLists, sl \in StopwordLists,
          norms \in NormalizerLists, abbrev \in BOOLEAN :
            Construct(rows, sl, norms, abbrev)
    /\ learned = {}
    /\ op = "init"
    /\ NoSentence
    /\ NoLoad
    /\ NoRun
    /\ sentence \in MatchSentences
    /\ out = << >>
    /\ NoDocument
    /\ NoFilter

RecognizeSentence ==
    /\ op = "init"
    /\ LET r == recognize_entities(Self, sentence)
       IN  /\ SetSelf(r.self)
           /\ learned' = Learn({}, r.reg)
           /\ out' = r.out
    /\ op' = "recognize"
    /\ UNCHANGED <<sentence, docvars, filtvars, sentvars, loadvars, runvars>>

NextMatch == RecognizeSentence

SpecMatch == InitMatch /\ [][NextMatch]_vars


(***************************************************************************)
(* The document driver (oger/doc/document): an Article or a Collection is  *)
(* processed with one engine, sentence by sentence.                        *)
(***************************************************************************)
\* the sentences documents are made of
DocSentences == { <<"t", "(", "DM", ")">>, <<"DM">> }

\* an article is the sequence of its sentences (over all its sections)
Articles == UNION {[1..n -> DocSentences] : n \in 0..MaxSentences}

\* what recognize_entities is called on: an Article, or a Collection
Contents ==
    {[kind |-> "article", articles |-> <<a>>] : a \in Articles}
    \cup {[kind |-> "collection", articles |-> c] :
            c \in UNION {[1..n -> Articles] : n \in 0..MaxArticles}}

\* len(text) of a sentence
TextLen(words) ==
    LET sp == SpanTokFrom(words, TRUE, 1, 0)
    IN  IF sp = << >> THEN 0 ELSE sp[Len(sp)][3]

\* Sentence.start, as Section._guess_offsets substitutes it: every sentence
\* starts where its predecessor ends
RECURSIVE SentenceStart(_, _)
SentenceStart(article, k) ==
    IF k = 1 THEN 0
    ELSE SentenceStart(article, k - 1) + TextLen(article[k - 1])

\* text[start:end], as the words it covers
Surface(words, start, end) ==
    LET sp == SpanTokFrom(words, TRUE, 1, 0)
    IN  SelectSeq(sp, LAMBDA t : start <= t[2] /\ t[3] <= end)

EntityTuple(i, text, start, end, extra) ==
    [id_ |-> i, text |-> text, start |-> start, end |-> end, extra |-> extra]

\* Entity._sort_key
Entity_sort_key(entity) == <<entity.start, entity.end>>

\* key comparison of tuples (start, end)
KeyLeq(a, b) == a[1] < b[1] \/ (a[1] = b[1] /\ a[2] <= b[2])

\* list.sort(key=Entity._sort_key): stable, so an element goes behind all
\* elements whose key is not greater
RECURSIVE InsertEntity(_, _)
InsertEntity(sorted, e) ==
    IF sorted = << >> THEN <<e>>
    ELSE IF KeyLeq(Entity_sort_key(Head(sorted)), Entity_sort_key(e))
         THEN <<Head(sorted)>> \o InsertEntity(Tail(sorted), e)
         ELSE <<e>> \o sorted

RECURSIVE Entity_sort(_)
Entity_sort(es) ==
    IF es = << >> THEN << >>
    ELSE InsertEntity(Entity_sort(SubSeq(es, 1, Len(es) - 1)), es[Len(es)])

\* a Sentence.recognize_entities that appends the new entities and never
\* sorts them in
Sentence_recognize_entities_append(text, start, old, eng, start_id) ==
    LET r   == recognize_entities(eng, text)
        new == [k \in 1..Len(r.out) |->
                   EntityTuple(start_id + k - 1,
                               Surface(text, r.out[k][1][1], r.out[k][1][2]),
                               r.out[k][1][1] + start,
                               r.out[k][1][2] + start,
                               r.out[k][2])]
    IN  [self     |-> r.self,
         reg      |-> r.reg,
         entities |-> old \o new,
         final_id |-> start_id + Len(new)]

\* Sentence.recognize_entities: the engine after the call, the sentence's
\* entities and the id for the next sentence
Sentence_recognize_entities(text, start, old, eng, start_id) ==
    LET r        == recognize_entities(eng, text)
        nonempty == old # << >>
        new      == [k \in 1..Len(r.out) |->
                        EntityTuple(start_id + k - 1,
                                    Surface(text, r.out[k][1][1],
                                            r.out[k][1][2]),
                                    r.out[k][1][1] + start,
                                    r.out[k][1][2] + start,
                                    r.out[k][2])]
    IN  [self     |-> r.self,
         reg      |-> r.reg,
         entities |-> IF new # << >> /\ nonempty
                      THEN Entity_sort(old \o new) ELSE old \o new,
         final_id |-> start_id + Len(new)]

\* a reset that happens before the first article only
ArticleReset_first(eng, log, a) ==
    IF log = << >>
    THEN [self |-> reset(eng), calls |-> Append(log, <<"reset", a>>)]
    ELSE [self |-> eng, calls |-> log]

\* entity_recognizer.reset() at the start of article a
ArticleReset(eng, log, a) ==
    [self |-> reset(eng), calls |-> Append(log, <<"reset", a>>)]

InitDoc ==
    /\ \E abbrev \in BOOLEAN :
          Construct(<<Row(<<"t">>, Entry1)>>, {}, <<Lowercase>>, abbrev)
    /\ learned = {}
    /\ op = "init"
    /\ NoSentence
    /\ NoLoad
    /\ NoRun
    /\ sentence = << >>
    /\ out = << >>
    /\ content \in Contents
    /\ art = 0
    /\ sent = 0
    /\ id_ = 0
    /\ calls = << >>
    /\ entities = [a \in 1..Len(content.articles) |->
                     [k \in 1..Len(content.articles[a]) |-> << >>]]
    /\ NoFilter

\* Exporter.recognize_entities on an Article: reset, then its sentences
Exporter_recognize_entities ==
    /\ op = "init"
    /\ content.kind = "article"
    /\ LET r == ArticleReset(Self, calls, 1)
       IN  SetSelf(r.self) /\ calls' = r.calls
    /\ learned' = {}
    /\ id_' = 1
    /\ art' = 1
    /\ sent' = 1
    /\ op' = "sentences"
    /\ UNCHANGED <<sentence, out, content, entities, filtvars, sentvars, loadvars, runvars>>

\* Collection.recognize_entities: the ids run over the whole collection
Collection_recognize_entities ==
    /\ op = "init"
    /\ content.kind = "collection"
    /\ id_' = 1
    /\ art' = 1
    /\ op' = "articles"
    /\ UNCHANGED <<engvars, content, sent, calls, entities, filtvars, sentvars, loadvars, runvars>>

\* the loop over the articles of a collection: reset for each article
NextArticle ==
    /\ op = "articles"
    /\ art <= Len(content.articles)
    /\ LET r == ArticleReset(Self, calls, art)
       IN  SetSelf(r.self) /\ calls' = r.calls
    /\ learned' = {}
    /\ sent' = 1
    /\ op' = "sentences"
    /\ UNCHANGED <<sentence, out, content, art, id_, entities, filtvars, sentvars, loadvars, runvars>>

\* the loop over the sentences of an article
NextSentence ==
    /\ op = "sentences"
    /\ sent <= Len(content.articles[art])
    /\ LET article == content.articles[art]
           r == Sentence_recognize_entities(article[sent],
                    SentenceStart(article, sent), entities[art][sent],
                    Self, id_)
       IN  /\ SetSelf(r.self)
           /\ learned' = Learn(learned, r.reg)
           /\ entities' = [entities EXCEPT ![art][sent] = r.entities]
           /\ id_' = r.final_id
    /\ calls' = Append(calls, <<"recognize", art, sent>>)
    /\ sent' = sent + 1
    /\ UNCHANGED <<sentence, out, content, art, op, filtvars, sentvars, loadvars, runvars>>

\* the sentences of the article are exhausted
EndOfArticle ==
    /\ op = "sentences"
    /\ sent > Len(content.articles[art])
    /\ IF content.kind = "collection"
       THEN art' = art + 1 /\ op' = "articles"
       ELSE art' = art /\ op' = "done"
    /\ UNCHANGED <<engvars, content, sent, id_, calls, entities, filtvars, sentvars, loadvars, runvars>>

\* the articles of the collection are exhausted
EndOfCollection ==
    /\ op = "articles"
    /\ art > Len(content.articles)
    /\ op' = "done"
    /\ UNCHANGED <<engvars, content, art, sent, id_, calls, entities,
                   filtvars, sentvars, loadvars, runvars>>

NextDoc ==
    \/ Exporter_recognize_entities
    \/ Collection_recognize_entities
    \/ NextArticle
    \/ NextSentence
    \/ EndOfArticle
    \/ EndOfCollection

SpecDoc == InitDoc /\ [][NextDoc]_vars

(***************************************************************************)
(* The span filters (oger/post/submatches).  An entity is a record with    *)
(* start, end and type; indices into a list are 0-based as in the code.    *)
(***************************************************************************)
\* entity.type of an entity-like object
entity_type(e) == IF "type" \in DOMAIN e THEN e.type ELSE e.extra[1]

\* document.Entity.sort_key: the offsets
sort_key(entity) == <<entity.start, entity.end>>

\* a containment test that takes equal offsets for containment
contains_or_equals(a, b) == a.start <= b.start /\ a.end >= b.end

\* _contains
contains(a, b) ==
    \/ (a.start <= b.start /\ a.end > b.end)
    \/ (a.start < b.start /\ a.end >= b.end)

\* an _equals that never holds
equals_never(a, b) == FALSE

\* _equals
equals(a, b) == a.start = b.start /\ a.end = b.end

\* _submatches, from index i on, with the reference entity and the indices
\* of the run of entities with the reference's offsets
RECURSIVE SubmatchesFrom(_, _, _, _)
SubmatchesFrom(es, i, ref_is, ref_entity) ==
    IF i >= Len(es) THEN {}
    ELSE LET entity == es[i + 1]
         IN  IF i = 0 THEN SubmatchesFrom(es, 1, <<0>>, entity)
             ELSE IF contains(ref_entity, entity)
                  THEN {i} \cup SubmatchesFrom(es, i + 1, ref_is, ref_entity)
             ELSE IF contains(entity, ref_entity)
                  THEN Range(ref_is)
                       \cup SubmatchesFrom(es, i + 1, <<i>>, entity)
             ELSE IF equals(entity, ref_entity)
                  THEN SubmatchesFrom(es, i + 1, Append(ref_is, i),
                                      ref_entity)
             ELSE SubmatchesFrom(es, i + 1, <<i>>, entity)

\* _submatches: the indices of the entities found within another entity
submatches(es) == SubmatchesFrom(es, 0, << >>, None)

\* a cluster boundary that lets touching spans share a cluster
StartsCluster_touching(e, current_end) == e.start > current_end

\* _clusters: the entity starts a new cluster
StartsCluster(e, current_end) == e.start >= current_end

\* _clusters, from index i on: the clusters of more than one entity, each a
\* list of pairs (index, length)
RECURSIVE ClustersFrom(_, _, _, _)
ClustersFrom(es, i, cluster, current_end) ==
    IF i >= Len(es)
    THEN IF Len(cluster) > 1 THEN <<cluster>> ELSE << >>
    ELSE LET e      == es[i + 1]
             fresh  == StartsCluster(e, current_end)
             yield  == IF fresh /\ Len(cluster) > 1 THEN <<cluster>>
                       ELSE << >>
             kept   == IF fresh THEN << >> ELSE cluster
             newend == IF e.end > current_end THEN e.end ELSE current_end
         IN  yield \o ClustersFrom(es, i + 1,
                                   Append(kept, <<i, e.end - e.start>>),
                                   newend)

clusters(es) == ClustersFrom(es, 0, << >>, 0)

\* a filter that removes only the shortest entities of every cluster
crossmatches_shortest(es) ==
    UNION {LET longest  == CHOOSE l \in {x[2] : x \in Range(c)} :
                               \A x \in Range(c) : x[2] <= l
               shortest == CHOOSE l \in {x[2] : x \in Range(c)} :
                               \A x \in Range(c) : x[2] >= l
           IN  {x[1] : x \in {y \in Range(c) :
                                 y[2] # longest /\ y[2] = shortest}} :
           c \in Range(clusters(es))}

\* a filter that keeps the first entity of every cluster
crossmatches_keep_first(es) ==
    UNION {{c[k][1] : k \in 2..Len(c)} : c \in Range(clusters(es))}

\* _crossmatches: in every cluster, the indices of the entities that are
\* not of the greatest length
crossmatches(es) ==
    UNION {LET longest == CHOOSE l \in {x[2] : x \in Range(c)} :
                              \A x \in Range(c) : x[2] <= l
           IN  {x[1] : x \in {y \in Range(c) : y[2] # longest}} :
           c \in Range(clusters(es))}

\* the entities whose index is not among the removables, from index i on
RECURSIVE KeepFrom(_, _, _)
KeepFrom(es, removables, i) ==
    IF i >= Len(es) THEN << >>
    ELSE (IF i \in removables THEN << >> ELSE <<es[i + 1]>>)
         \o KeepFrom(es, removables, i + 1)

\* _rm_overlapping
rm_overlapping(es, sub) ==
    KeepFrom(es, IF sub THEN submatches(es) ELSE crossmatches(es), 0)

\* the types of the entities in the order of their first occurrence (the
\* key order of the dict entity_types)
RECURSIVE TypesInOrder(_)
TypesInOrder(es) ==
    IF es = << >> THEN << >>
    ELSE LET before == TypesInOrder(SubSeq(es, 1, Len(es) - 1))
             t      == entity_type(es[Len(es)])
         IN  IF t \in Range(before) THEN before ELSE Append(before, t)

\* filtered.sort(key=sort_key): stable
RECURSIVE InsertByKey(_, _)
InsertByKey(sorted, e) ==
    IF sorted = << >> THEN <<e>>
    ELSE IF KeyLeq(sort_key(Head(sorted)), sort_key(e))
         THEN <<Head(sorted)>> \o InsertByKey(Tail(sorted), e)
         ELSE <<e>> \o sorted

RECURSIVE SortByKey(_)
SortByKey(es) ==
    IF es = << >> THEN << >>
    ELSE InsertByKey(SortByKey(SubSeq(es, 1, Len(es) - 1)), es[Len(es)])

\* the loop of _rm_sametype_overlaps over the subsets, from the k-th type
RECURSIVE FilterSubsets(_, _, _, _)
FilterSubsets(es, sub, types, k) ==
    IF k > Len(types) THEN << >>
    ELSE rm_overlapping(SelectSeq(es, LAMBDA e : entity_type(e) = types[k]),
                        sub)
         \o FilterSubsets(es, sub, types, k + 1)

\* a same-type filter that does not look at the types
rm_sametype_overlaps_anytype(es, sub) == SortByKey(rm_overlapping(es, sub))

\* _rm_sametype_overlaps
rm_sametype_overlaps(es, sub) ==
    SortByKey(FilterSubsets(es, sub, TypesInOrder(es), 1))

\* _rm_any_overlaps, for the entities of one sentence
rm_any_overlaps(es, sametype, sub) ==
    IF sametype THEN rm_sametype_overlaps(es, sub)
    ELSE rm_overlapping(es, sub)

\* the entities a sentence can hold (a list handed to a filter may hold
\* annotations read from a file, so a span may be empty)
EntityTypes == {"A", "B"}
Spans == {[start |-> a, end |-> b, type |-> t] :
             a \in 0..MaxOffset, b \in 0..MaxOffset, t \in EntityTypes}
Entities == {e \in Spans : e.start <= e.end}

\* sorted by (start, end), as Sentence.recognize_entities leaves the list
Sorted(es) ==
    \A k \in 1..(Len(es) - 1) : KeyLeq(sort_key(es[k]), sort_key(es[k + 1]))

\* the lists of exactly n entities that are sorted by (start, end)
RECURSIVE SortedLists(_)
SortedLists(n) ==
    IF n = 0 THEN {<< >>}
    ELSE {Append(p[1], p[2]) :
             p \in {x \in SortedLists(n - 1) \X Entities :
                      n > 1 => KeyLeq(sort_key(x[1][n - 1]),
                                      sort_key(x[2]))}}

InitFilter ==
    /\ Construct(<<Row(<<"t">>, Entry1)>>, {}, << >>, FALSE)
    /\ learned = {}
    /\ op = "init"
    /\ NoSentence
    /\ NoLoad
    /\ NoRun
    /\ sentence = << >>
    /\ out = << >>
    /\ NoDocument
    /\ \E n \in 0..MaxEntities : ents \in SortedLists(n)
    /\ filtered = ents

\* sentence.entities = filter_(sentence.entities, sub)
Filter(name, sametype, sub) ==
    /\ op = "init"
    /\ filtered' = rm_any_overlaps(ents, sametype, sub)
    /\ op' = name
    /\ UNCHANGED <<engvars, docvars, ents, sentvars, loadvars, runvars>>

remove_overlaps == Filter("remove_overlaps", FALSE, FALSE)

remove_sametype_overlaps == Filter("remove_sametype_overlaps", TRUE, FALSE)

remove_submatches == Filter("remove_submatches", FALSE, TRUE)

remove_sametype_submatches == Filter("remove_sametype_submatches", TRUE, TRUE)

NextFilter ==
    \/ remove_overlaps
    \/ remove_sametype_overlaps
    \/ remove_submatches
    \/ remove_sametype_submatches

SpecFilter == InitFilter /\ [][NextFilter]_vars

(***************************************************************************)
(* Properties of one recognize_entities call (SpecMatch).                  *)
(***************************************************************************)
\* the position of the candidate span of tokens i..j-1 (0-based, j exclusive)
Position(sp, i, j) == <<sp[i + 1][2], sp[j][3]>>

\* the call registered no abbreviation, so the index is the one the call
\* started with
NoRegistration == op = "recognize" /\ learned = {}

\* the exact-match policy lets the span i..j-1 of the sentence match the
\* row: equal normalized tokens, and equal original tokens when the
\* normalized tokens are a stopword
RowMatches(row, toks, norm, i, j) ==
    LET rtoks == tokenize_words(row.term, abbrev_detection)
        snorm == SubSeq(norm, i + 1, j)
    IN  /\ normalize(normalizers, rtoks) = snorm
        /\ snorm \in stopwords => rtoks = SubSeq(toks, i + 1, j)

\* what the policy says the call must yield
PolicyMatches ==
    LET sp   == span_tokenize_words(sentence, abbrev_detection)
        toks == [x \in 1..Len(sp) |-> sp[x][1]]
        norm == normalize(normalizers, toks)
    IN  UNION {UNION {{<<Position(sp, i, j), termlist[k].fields>> :
                          k \in {r \in 1..Len(termlist) :
                                   RowMatches(termlist[r], toks, norm, i, j)}} :
                      j \in (i + 1)..Len(toks)} :
               i \in 0..(Len(toks) - 1)}

\* the key the policy gives a token tuple: its original tokens when its
\* normalized tokens are a stopword, its normalized tokens otherwise
PolicyKey(toks, norm) == IF norm \in stopwords THEN toks ELSE norm

\* the key the policy gives a row of the term list
RowKey(row) ==
    LET rtoks == tokenize_words(row.term, abbrev_detection)
    IN  PolicyKey(rtoks, normalize(normalizers, rtoks))

\* the span i..j-1 is a candidate: some row has the normalized first token
\* of the span and a key of the span's length
Candidate(norm, i, j) ==
    \E k \in 1..Len(termlist) :
        LET rtoks == tokenize_words(termlist[k].term, abbrev_detection)
        IN  /\ normalize_token(normalizers, rtoks[1]) = norm[i + 1]
            /\ Len(rtoks) = j - i

\* what the call must yield when both sides are keyed by the policy
KeyMatches ==
    LET sp   == span_tokenize_words(sentence, abbrev_detection)
        toks == [x \in 1..Len(sp) |-> sp[x][1]]
        norm == normalize(normalizers, toks)
    IN  UNION {UNION {{<<Position(sp, i, j), termlist[k].fields>> :
                          k \in {r \in 1..Len(termlist) :
                                   /\ Candidate(norm, i, j)
                                   /\ RowKey(termlist[r])
                                        = PolicyKey(SubSeq(toks, i + 1, j),
                                                    SubSeq(norm, i + 1, j))}} :
                      j \in (i + 1)..Len(toks)} :
               i \in 0..(Len(toks) - 1)}

\* normalizing a normalized token returns it unchanged
Idempotent(norms) ==
    \A w \in Words :
        normalize_token(norms, normalize_token(norms, w))
            = normalize_token(norms, w)

\* a row whose term normalizes to a stopword is yielded only for spans
\* whose original tokens are the tokens of the term
StopwordTermsMatchExactly ==
    LET sp   == span_tokenize_words(sentence, abbrev_detection)
        toks == [x \in 1..Len(sp) |-> sp[x][1]]
    IN  \A k \in 1..Len(termlist) :
            LET rtoks == tokenize_words(termlist[k].term, abbrev_detection)
            IN  normalize(normalizers, rtoks) \in stopwords =>
                    \A i \in 0..(Len(toks) - 1), j \in 1..Len(toks) :
                        (i < j /\ <<Position(sp, i, j), termlist[k].fields>>
                                     \in Range(out))
                            => SubSeq(toks, i + 1, j) = rtoks

IndexMatches ==
    LET sp   == span_tokenize_words(sentence, abbrev_detection)
        toks == [x \in 1..Len(sp) |-> sp[x][1]]
        norm == normalize(normalizers, toks)
        Lens(i) == IF norm[i + 1] \in DOMAIN term_first
                   THEN {L \in Range(term_first[norm[i + 1]]) :
                            i + L <= Len(toks)}
                   ELSE {}
        Key(i, L) == em_filter(stopwords, norm, toks, i, i + L)
    IN  UNION {UNION {{<<Position(sp, i, i + L), e>> :
                          e \in IF Key(i, L) \in DOMAIN full_terms
                                THEN full_terms[Key(i, L)] ELSE {}} :
                      L \in Lens(i)} :
               i \in 0..(Len(toks) - 1)}

\* C2: the call yields exactly one match per candidate found in
\* token_tuple_map and per entry stored under its key, overlapping and
\* nested ones included, nothing for an empty sentence and nothing of
\* length 0
C2_EmitsExactlyIndexHits ==
    NoRegistration =>
        /\ Range(out) = IndexMatches
        /\ Len(out) = Cardinality(IndexMatches)
        /\ \A m \in Range(out) : m[1][1] < m[1][2]
        /\ tokenize_words(sentence, abbrev_detection) = << >> => out = << >>

\* two matches with overlapping spans came out of one call
C2_Witness ==
    /\ NoRegistration
    /\ \E a \in Range(out), b \in Range(out) :
          /\ a[1] # b[1]
          /\ a[1][1] < b[1][2]
          /\ b[1][1] < a[1][2]


(***************************************************************************)
(* Properties of the engine over documents (Spec).                         *)
(***************************************************************************)
\* every occurrence of the word l.x in s is among the matches m of s, once
\* for every entry of l
OccurrencesMatched(l, s, m) ==
    LET sp == span_tokenize_words(s, abbrev_detection)
    IN  \A k \in 1..Len(sp) :
            sp[k][1] = l.x =>
                \A e \in l.entries : <<<<sp[k][2], sp[k][3]>>, e>> \in m

\* C3: once a match was followed by ( X ), every occurrence of the token X
\* in a sentence recognized before the next reset is yielded as a match
\* with every entry of the match that preceded the parentheses
C3_AbbrevMatchedLater ==
    learned # {} =>
        \A s \in Sentences :
            LET m == Range(recognize_entities(Self, s).out)
            IN  \A l \in learned : OccurrencesMatched(l, s, m)

\* a short form that normalization changes was learned in this document,
\* and a sentence that yielded nothing before now yields a match for it
C3_Witness ==
    /\ op = "recognize"
    /\ \E l \in learned : l.x = "DM" /\ l.entries # {}
    /\ normalizers = <<Lowercase>>
    /\ recognize_entities(BaseSelf, <<"DM">>).out = << >>
    /\ recognize_entities(Self, <<"DM">>).out # << >>

\* C4: after reset() every sentence yields the matches a freshly built
\* engine yields for it
C4_ResetForgetsAbbrevs ==
    op = "reset" =>
        \A s \in Sentences :
            recognize_entities(Self, s).out
                = recognize_entities(BaseSelf, s).out

\* C5: reset() leaves stopwords, first_token_map and token_tuple_map as
\* they were before the document, and the registry empty
C5_ResetRestoresIndex ==
    op = "reset" =>
        /\ stopwords = base.stopwords
        /\ term_first = base.term_first
        /\ full_terms = base.full_terms
        /\ abbrevs = EmptyDict


(***************************************************************************)
(* Properties of the document driver (SpecDoc).                            *)
(***************************************************************************)
\* the positions in the call history of the resets made for article a, and
\* of the recognize_entities calls for its sentences
ResetsOf(a) == {i \in 1..Len(calls) : calls[i] = <<"reset", a>>}
RecognitionsOf(a) ==
    {i \in 1..Len(calls) : calls[i][1] = "recognize" /\ calls[i][2] = a}

\* C6: reset() is called exactly once per article, before the article's
\* first sentence is recognized and never between two of its sentences;
\* in a collection, once for each article, before that article's first
\* sentence
C6_ResetOncePerArticle ==
    \A a \in 1..Len(content.articles) :
        /\ Cardinality(ResetsOf(a)) <= 1
        /\ (RecognitionsOf(a) # {} \/ op = "done")
              => Cardinality(ResetsOf(a)) = 1
        /\ \A i \in RecognitionsOf(a) :
              \E j \in ResetsOf(a) :
                  /\ j < i
                  /\ \A k \in (j + 1)..(i - 1) : calls[k][1] = "recognize"
        /\ op = "done"
              => {calls[i][3] : i \in RecognitionsOf(a)}
                    = 1..Len(content.articles[a])

\* a collection of two articles of two sentences each has been processed
C6_Witness ==
    /\ op = "done"
    /\ content.kind = "collection"
    /\ Len(content.articles) = MaxArticles
    /\ \A a \in 1..Len(content.articles) : Len(content.articles[a]) = 2
    /\ Len(calls) = 6
    /\ calls[4] = <<"reset", 2>>



(***************************************************************************)
(* Properties of the span filters (SpecFilter).                            *)
(***************************************************************************)
Indices(es) == 0..(Len(es) - 1)

Length(e) == e.end - e.start

\* the list without the entities at the given (0-based) indices
Without(es, removed) ==
    LET keep == SortedTuple(Indices(es) \ removed)
    IN  [k \in 1..Len(keep) |-> es[keep[k] + 1]]

\* the span of b lies within the span of a, and the two spans differ
ProperlyWithin(b, a) ==
    /\ a.start <= b.start
    /\ b.end <= a.end
    /\ <<a.start, a.end>> # <<b.start, b.end>>

\* the indices of the entities properly contained in another entity
ProperlyContained(es) ==
    {i \in Indices(es) :
        \E j \in Indices(es) : j # i /\ ProperlyWithin(es[i + 1], es[j + 1])}

Span(a, b, t) == [start |-> a, end |-> b, type |-> t]

\* C7: on a list sorted by (start, end), remove_submatches removes exactly
\* the entities properly contained in another entity of the list; entities
\* with identical offsets do not remove each other and share their fate;
\* of (0,20,A), (0,8,B), (12,18,C) only (0,20,A) remains
C7_RemovesProperlyContained ==
    op = "remove_submatches" =>
        /\ filtered = Without(ents, ProperlyContained(ents))
        /\ \A i \in Indices(ents), j \in Indices(ents) :
              equals(ents[i + 1], ents[j + 1]) =>
                  (i \in submatches(ents) <=> j \in submatches(ents))
        /\ rm_any_overlaps(<<Span(0, 20, "A"), Span(0, 8, "B"),
                             Span(12, 18, "C")>>, FALSE, TRUE)
              = <<Span(0, 20, "A")>>
        /\ rm_any_overlaps(<<Span(0, 8, "B"), Span(0, 20, "A"),
                             Span(12, 18, "C")>>, FALSE, TRUE)
              = <<Span(0, 20, "A")>>

\* two entities with identical offsets went together: contained in a third
\* entity, both were removed
C7_Witness ==
    /\ op = "remove_submatches"
    /\ Len(ents) = 3
    /\ equals(ents[1], ents[2])
    /\ ProperlyWithin(ents[1], ents[3])
    /\ filtered = <<ents[3]>>

\* the index at which the cluster of the entity at index i starts: an entity
\* joins the cluster of its predecessor iff it starts before the greatest
\* end of the entities already in that cluster
RECURSIVE ClusterStart(_, _)
ClusterStart(es, i) ==
    IF i = 0 THEN 0
    ELSE LET c == ClusterStart(es, i - 1)
         IN  IF \E k \in c..(i - 1) : es[i + 1].start < es[k + 1].end
             THEN c ELSE i

\* the indices of the entities that are not of the greatest length of
\* their cluster
ShorterInCluster(es) ==
    {i \in Indices(es) :
        \E k \in Indices(es) :
            /\ ClusterStart(es, k) = ClusterStart(es, i)
            /\ Length(es[k + 1]) > Length(es[i + 1])}

\* C8: on a list sorted by (start, end), remove_overlaps keeps, in every
\* cluster of chained overlapping entities, exactly the entities of the
\* greatest length, and every entity that is alone in its cluster; spans
\* that only touch do not overlap; of (0,10), (5,9), (9,14) only (0,10)
\* remains
C8_KeepsLongestOfCluster ==
    op = "remove_overlaps" =>
        /\ filtered = Without(ents, ShorterInCluster(ents))
        /\ rm_any_overlaps(<<Span(0, 10, "A"), Span(5, 9, "A"),
                             Span(9, 14, "A")>>, FALSE, FALSE)
              = <<Span(0, 10, "A")>>

\* a chain: the third entity overlaps the second but not the first, and
\* only the first, the longest, was kept
C8_Witness ==
    /\ op = "remove_overlaps"
    /\ Len(ents) = 3
    /\ ents[2].start < ents[1].end
    /\ ents[3].start >= ents[1].end
    /\ ents[3].start < ents[2].end
    /\ filtered = <<ents[1]>>

OfType(es, t) == SelectSeq(es, LAMBDA e : e.type = t)

\* two entities share a character
Overlap(a, b) == a.start < b.end /\ b.start < a.end

\* C9: a same-type filter leaves, of every type, what the any-type rule
\* leaves of the entities of that type alone, sorted by offsets; two
\* overlapping or nested entities of different types are both kept
C9_SameTypeOnly ==
    \A sub \in BOOLEAN :
        op = (IF sub THEN "remove_sametype_submatches"
              ELSE "remove_sametype_overlaps") =>
            /\ \A t \in EntityTypes :
                  OfType(filtered, t) = rm_overlapping(OfType(ents, t), sub)
            /\ Len(filtered)
                  = Len(ents) - Cardinality({i \in Indices(ents) :
                        LET t  == ents[i + 1].type
                            n  == Len(OfType(SubSeq(ents, 1, i), t))
                            es == OfType(ents, t)
                        IN  n \in (IF sub THEN submatches(es)
                                   ELSE crossmatches(es))})
            /\ Sorted(filtered)
            /\ ( /\ Len(ents) = 2
                 /\ ents[1].type # ents[2].type
                 /\ Overlap(ents[1], ents[2]) ) => filtered = ents

\* two overlapping entities of different types went through a same-type
\* filter, and the any-type filter would have removed one of them
C9_Witness ==
    /\ op = "remove_sametype_overlaps"
    /\ Len(ents) = 2
    /\ ents[1].type # ents[2].type
    /\ Overlap(ents[1], ents[2])
    /\ filtered = ents
    /\ Len(rm_any_overlaps(ents, FALSE, FALSE)) = 1

\* span (2) is contained in (1), and (3) partially overlaps the end of (1)
DocstringSpans(e1, e2, e3) ==
    /\ ProperlyWithin(e2, e1)
    /\ e1.start < e3.start
    /\ e3.start < e1.end
    /\ e1.end < e3.end

\* for the three spans at indices i1, i2, i3, remove_submatches removes
\* only (2) and remove_overlaps removes (2) and (3)
DocstringOutcome(i1, i2, i3) ==
    /\ filtered = Without(ents, {i2})
    /\ rm_any_overlaps(ents, FALSE, FALSE) = Without(ents, {i2, i3})

\* remove_submatches removes nothing that remove_overlaps keeps, and no
\* entity that is not contained in another one
SubmatchesAmongOverlaps ==
    /\ filtered = Without(ents, submatches(ents))
    /\ rm_any_overlaps(ents, FALSE, FALSE)
          = Without(ents, crossmatches(ents))
    /\ submatches(ents) \subseteq crossmatches(ents)
    /\ \A i \in submatches(ents) :
          \E j \in Indices(ents) :
              j # i /\ ProperlyWithin(ents[i + 1], ents[j + 1])

\* every entity spans at least one character
NoEmptySpan == \A k \in 1..Len(ents) : ents[k].start < ents[k].end

\* C10 as stated: whatever remove_submatches removes, remove_overlaps
\* removes too; and for any span (1), a span (2) contained in it and a span
\* (3) that partially overlaps the end of (1), remove_submatches removes
\* only (2) and remove_overlaps removes (2) and (3)
C10_AnySpans ==
    op = "remove_submatches" =>
        /\ SubmatchesAmongOverlaps
        /\ Len(ents) = 3 =>
              \A i1 \in Indices(ents), i2 \in Indices(ents),
                 i3 \in Indices(ents) :
                    DocstringSpans(ents[i1 + 1], ents[i2 + 1], ents[i3 + 1])
                        => DocstringOutcome(i1, i2, i3)

\* C10: when no entity is an empty span, whatever remove_submatches
\* removes, remove_overlaps removes too, and remove_submatches removes no
\* entity that is not contained in another one; for a span (1), a span (2)
\* contained in it and a span (3), shorter than (1), that partially
\* overlaps the end of (1), remove_submatches removes only (2) and
\* remove_overlaps removes (2) and (3)
C10_SubmatchesRemovedByOverlaps ==
    (op = "remove_submatches" /\ NoEmptySpan) =>
        /\ SubmatchesAmongOverlaps
        /\ Len(ents) = 3 =>
              \A i1 \in Indices(ents), i2 \in Indices(ents),
                 i3 \in Indices(ents) :
                    ( /\ DocstringSpans(ents[i1 + 1], ents[i2 + 1],
                                        ents[i3 + 1])
                      /\ Length(ents[i3 + 1]) < Length(ents[i1 + 1]) )
                        => DocstringOutcome(i1, i2, i3)

\* the three spans of the example went through remove_submatches, which
\* removed (2) only, where remove_overlaps removes (3) as well
C10_Witness ==
    /\ op = "remove_submatches"
    /\ Len(ents) = 3
    /\ NoEmptySpan
    /\ DocstringSpans(ents[1], ents[2], ents[3])
    /\ Length(ents[3]) < Length(ents[1])
    /\ filtered = <<ents[1], ents[3]>>
    /\ rm_any_overlaps(ents, FALSE, FALSE) = <<ents[1]>>


(***************************************************************************)
(* Properties of the index (Spec).                                         *)
(***************************************************************************)
\* the key a row got when the index was built
BaseRowKey(row) ==
    LET rtoks == tokenize_words(row.term, abbrev_detection)
        rnorm == normalize(normalizers, rtoks)
    IN  IF rnorm \in base.stopwords THEN rtoks ELSE rnorm

\* the first tokens the key k was indexed under: the normalized first token
\* of every row of the term list with that key, and of every short form
\* registered since the last reset
FirstTokens(k) ==
    {normalize_token(normalizers,
                     tokenize_words(termlist[r].term, abbrev_detection)[1]) :
        r \in {x \in 1..Len(termlist) : BaseRowKey(termlist[x]) = k}}
    \cup {normalize_token(normalizers, l.x) :
            l \in {m \in learned : <<m.x>> = k}}

\* C11: every key of token_tuple_map has its length in first_token_map,
\* under the first token that the matcher looks the key's term up with
C11_KeyLengthUnderFirstToken ==
    \A k \in DOMAIN full_terms :
        \A n \in FirstTokens(k) :
            /\ n \in DOMAIN term_first
            /\ Len(k) \in Range(term_first[n])


(***************************************************************************)
(* The pipeline on one sentence (Router.process, then Router.postfilter):  *)
(* the recognizers one after the other, then the postfilters.              *)
(***************************************************************************)
\* EntityRecognizer.__init__ / AbbrevDetector.__init__ as a value
Engine(rows, stopword_list, norms, abbrev) ==
    LET sw  == import_stopwords(norms, abbrev, stopword_list)
        idx == load_termlist_from_file(rows, norms, abbrev, sw, n_fields)
    IN  [stopwords |-> sw, term_first |-> idx.term_first,
         full_terms |-> idx.full_terms, abbrevs |-> EmptyDict,
         normalizers |-> norms, abbrev_detection |-> abbrev]

\* the entity recognizers a pipeline may be configured with (Router.ers)
Recognizers ==
    {Engine(rows, {}, << Lowercase >>, abbrev) :
        rows \in TermLists, abbrev \in BOOLEAN}

\* the postfilters of submatches.py, as (name, sametype, sub)
Postfilters ==
    { <<"remove_overlaps", FALSE, FALSE>>,
      <<"remove_sametype_overlaps", TRUE, FALSE>>,
      <<"remove_submatches", FALSE, TRUE>>,
      <<"remove_sametype_submatches", TRUE, TRUE>> }

RecognizerCalls == SelectSeq(s_calls, LAMBDA c : c = "recognize_entities")
PostfilterCalls == SelectSeq(s_calls, LAMBDA c : c # "recognize_entities")

InitSent ==
    /\ Construct(<<Row(<<"t">>, Entry1)>>, {}, << >>, FALSE)
    /\ learned = {}
    /\ op = "init"
    /\ sentence = << >>
    /\ out = << >>
    /\ NoDocument
    /\ NoFilter
    /\ NoLoad
    /\ NoRun
    /\ s_text \in MatchSentences
    /\ s_entities = << >>
    /\ s_calls = << >>

\* Router.process: the next recognizer of the pipeline, on the first
\* sentence of its article (after reset(), with id_ = 1)
Process ==
    /\ PostfilterCalls = << >>
    /\ Len(RecognizerCalls) < MaxRecognizers
    /\ \E er \in Recognizers :
          s_entities' = Sentence_recognize_entities(s_text, 0, s_entities,
                                                    reset(er), 1).entities
    /\ s_calls' = Append(s_calls, "recognize_entities")
    /\ op' = "process"
    /\ UNCHANGED <<engvars, docvars, filtvars, s_text, loadvars, runvars>>

\* Router.postfilter: the next postfilter of the pipeline
Postfilter ==
    /\ Len(PostfilterCalls) < MaxPostfilters
    /\ \E pf \in Postfilters :
          /\ s_entities' = rm_any_overlaps(s_entities, pf[2], pf[3])
          /\ s_calls' = Append(s_calls, pf[1])
    /\ op' = "postfilter"
    /\ UNCHANGED <<engvars, docvars, filtvars, s_text, loadvars, runvars>>

NextSent ==
    \/ Process
    \/ Postfilter

SpecSent == InitSent /\ [][NextSent]_vars

(***************************************************************************)
(* Properties of the pipeline on one sentence (SpecSent).                  *)
(***************************************************************************)
\* C12: after every Sentence.recognize_entities call and after every span
\* filter, the sentence's entities are sorted by (start, end)
C12_EntitiesSorted ==
    \A i \in 1..(Len(s_entities) - 1) :
        KeyLeq(Entity_sort_key(s_entities[i]),
               Entity_sort_key(s_entities[i + 1]))

\* a second recognizer found an entity that starts before one of the
\* first recognizer's, and a filter ran on the merged list
C12_Witness ==
    /\ Len(RecognizerCalls) = 2
    /\ Len(PostfilterCalls) = 1
    /\ \E i, j \in 1..Len(s_entities) :
          /\ i < j
          /\ s_entities[i].id_ > s_entities[j].id_
          /\ s_entities[i].start < s_entities[j].start


(***************************************************************************)
(* Loading the term list (EntityRecognizer.load_termlist): from the cache  *)
(* artifact next to the term list file, or from the file itself.           *)
(***************************************************************************)
\* the field parsers; a row too short for the parser raises IndexError
termlist_format_4(fields) ==
    IF Len(fields) < 4 THEN [error |-> TRUE]
    ELSE [error |-> FALSE, term |-> fields[2],
          std |-> <<fields[3], fields[4], "unknown", fields[1], "none">>,
          extra |-> SubSeq(fields, 5, Len(fields))]

termlist_format_6(fields) ==
    IF Len(fields) < 6 THEN [error |-> TRUE]
    ELSE [error |-> FALSE, term |-> fields[2],
          std |-> <<fields[3], fields[4], fields[5], fields[1], fields[6]>>,
          extra |-> SubSeq(fields, 7, Len(fields))]

termlist_format_bth(fields) ==
    IF Len(fields) < 6 THEN [error |-> TRUE]
    ELSE [error |-> FALSE, term |-> fields[4],
          std |-> <<fields[6], fields[5], fields[2], fields[3], fields[1]>>,
          extra |-> SubSeq(fields, 7, Len(fields))]

\* the formats with a parser method termlist_format_<name>
KnownFormats == {"4", "6", "bth"}

field_parser(field_format, fields) ==
    CASE field_format = "4"   -> termlist_format_4(fields)
      [] field_format = "6"   -> termlist_format_6(fields)
      [] field_format = "bth" -> termlist_format_bth(fields)

\* the settings of the engine whose term list is loaded
LoadNormalizers == << Lowercase >>
LoadStopwords == {}

\* the words of a field of the file: none in an empty field, else one
FieldWords(field) == IF field = "" THEN << >> ELSE <<field>>

\* the rows of the file as the row loop sees them: term, std + extra
ParsedRows(lines, field_format) ==
    [k \in 1..Len(lines) |->
        LET f == field_parser(field_format, lines[k])
        IN  IF f.error THEN [error |-> TRUE]
            ELSE [error |-> FALSE, term |-> FieldWords(f.term),
                  fields |-> f.std \o f.extra]]

Raised(type) == [k |-> "error", type |-> type]
Terms(term_first_, full_terms_) ==
    [k |-> "terms", term_first |-> term_first_, full_terms |-> full_terms_]

\* load_termlist_from_file with the parser of the format, on the lines of
\* the file
\* the rows before the first row that the parser fails on
ParsableRows(rows) ==
    LET bad == {k \in 1..Len(rows) : rows[k].error}
    IN  IF bad = {} THEN rows
        ELSE SubSeq(rows, 1, (CHOOSE k \in bad : \A x \in bad : k <= x) - 1)

\* what the row loop returns or raises: ValueError for a wrong field count
\* in a row before the first unparsable one, else IndexError for that one
RowLoop(idx, rows) ==
    IF idx.error THEN Raised("ValueError")
    ELSE IF \E k \in 1..Len(rows) : rows[k].error THEN Raised("IndexError")
    ELSE Terms(idx.term_first, idx.full_terms)

LoadRowsOf(rows, n_fields_) ==
    RowLoop(load_termlist_from_file(ParsableRows(rows), LoadNormalizers,
                                    FALSE, LoadStopwords, n_fields_),
            rows)

LoadFile(lines, field_format, n_fields_) ==
    LoadRowsOf(ParsedRows(lines, field_format), n_fields_)

\* a load from the cache artifact without the format check
load_termlist_from_pickle_unchecked(pickled, n_exp) == pickled

\* EntityRecognizer.load_termlist_from_pickle: the shallow format check
\* reads the length of one entry of the first value of full_terms (all
\* entries of an index have the same length)
load_termlist_from_pickle(pickled, n_exp) ==
    IF DOMAIN pickled.full_terms = {} THEN pickled
    ELSE LET key   == CHOOSE x \in DOMAIN pickled.full_terms : TRUE
             entry == CHOOSE e \in pickled.full_terms[key] : TRUE
         IN  IF Len(entry) # n_exp THEN Raised("ValueError") ELSE pickled

\* EntityRecognizer.load_termlist: what it returns or raises, and the cache
\* artifact afterwards; writable says whether the artifact can be written
\* write_terms_to_pickle after a successful load_termlist_from_file
Written(t, pickled, writable) ==
    [terms  |-> t,
     pickle |-> IF t.k = "terms" /\ writable THEN t ELSE pickled]

load_termlist_with(cfg, pickled, skip_loading, writable, from_file) ==
    IF pickled # None /\ ~cfg.force_reload
    THEN [terms  |-> IF skip_loading THEN Terms(None, None)
                     ELSE load_termlist_from_pickle(pickled,
                                                    5 + cfg.n_extra),
          pickle |-> pickled]
    ELSE IF cfg.field_format \notin KnownFormats
    THEN [terms |-> Raised("ValueError"), pickle |-> pickled]
    ELSE Written(from_file, pickled, writable)

\* ... where from_file is what load_termlist_from_file gives for the file
load_termlist(cfg, pickled, skip_loading, writable) ==
    load_termlist_with(cfg, pickled, skip_loading, writable,
                       LoadFile(cfg.lines, cfg.field_format,
                                5 + cfg.n_extra))

\* a row of the file with n fields and the given term
FieldNames == <<"id", "term", "type", "term", "res", "cui">>
Line(n, term) ==
    [k \in 1..n |-> IF k > 6 THEN "x"
                    ELSE IF FieldNames[k] = "term" THEN term
                    ELSE FieldNames[k]]

Lines == {Line(n, term) : n \in 3..MaxFields, term \in {"t", ""}}

\* the term list files
TermFiles == UNION {[1..n -> Lines] : n \in 0..MaxRows}

FieldFormats == KnownFormats \cup {"5"}

InitLoad ==
    /\ Construct(<<Row(<<"t">>, Entry1)>>, {}, << >>, FALSE)
    /\ learned = {}
    /\ op = "init"
    /\ sentence = << >>
    /\ out = << >>
    /\ NoDocument
    /\ NoFilter
    /\ NoSentence
    /\ config \in [lines : TermFiles, field_format : FieldFormats,
                   n_extra : {0, 1}, force_reload : BOOLEAN]
    /\ pickle_file = None
    /\ terms = None
    /\ NoRun

\* the result of load_termlist and the cache artifact it leaves
Loaded(r) ==
    /\ terms' = r.terms
    /\ pickle_file' = r.pickle

\* constructing an engine for the configuration: EntityRecognizer.__init__
\* calls load_termlist(config)
NewEntityRecognizer ==
    /\ \E writable \in BOOLEAN :
          Loaded(load_termlist(config, pickle_file, FALSE, writable))
    /\ op' = "construct"
    /\ UNCHANGED <<engvars, docvars, filtvars, sentvars, config, runvars>>

\* EntityRecognizer.ensure_cache: a throw-away instance, skip_loading set
ensure_cache ==
    /\ \E writable \in BOOLEAN :
          Loaded(load_termlist(config, pickle_file, TRUE, writable))
    /\ op' = "ensure_cache"
    /\ UNCHANGED <<engvars, docvars, filtvars, sentvars, config, runvars>>

\* the settings change between two runs; the term list file stays
Configure ==
    /\ \E ff \in FieldFormats, ne \in {0, 1}, fr \in BOOLEAN :
          config' = [config EXCEPT !.field_format = ff, !.n_extra = ne,
                                   !.force_reload = fr]
    /\ config' # config
    /\ op' = "configure"
    /\ UNCHANGED <<engvars, docvars, filtvars, sentvars, pickle_file, terms,
                   runvars>>

NextLoad ==
    \/ NewEntityRecognizer
    \/ ensure_cache
    \/ Configure

SpecLoad == InitLoad /\ [][NextLoad]_vars

(***************************************************************************)
(* Properties of loading the term list (SpecLoad).                         *)
(***************************************************************************)
\* the last constructor call read the term list file: the cache was
\* bypassed, or there still is none
BuiltFromFile ==
    /\ op = "construct"
    /\ config.field_format \in KnownFormats
    /\ config.force_reload \/ pickle_file = None

\* C13: constructing an engine with an unknown field format fails
C13_UnknownFormatFails ==
    (op = "construct" /\ config.field_format \notin KnownFormats)
        => terms.k = "error"

\* the number of fields a row of the file must have: the term and the
\* standard fields that the format reads from the row, and the extra fields
ExpectedFields(cfg) ==
    (IF cfg.field_format = "4" THEN 4 ELSE 6) + cfg.n_extra

\* C14: a build from a file with a row of a wrong number of fields, too
\* few or too many, ends with an error
C14_FieldCountMismatchAborts ==
    (/\ BuiltFromFile
     /\ \E k \in 1..Len(config.lines) :
            Len(config.lines[k]) # ExpectedFields(config))
        => terms.k = "error"

\* the rows whose term has a token
WithTerm(lines, field_format) ==
    SelectSeq(lines,
              LAMBDA l : ~field_parser(field_format, l).error
                            => field_parser(field_format, l).term # "")

\* C15: the index built from a file is the index of the file without its
\* rows of an empty term
C15_EmptyTermRowSkipped ==
    (BuiltFromFile /\ terms.k = "terms")
        => terms = LoadFile(WithTerm(config.lines, config.field_format),
                            config.field_format, 5 + config.n_extra)

\* the cache artifact records a field count other than the configured one
PickleMismatch ==
    /\ pickle_file # None
    /\ \E key \in DOMAIN pickle_file.full_terms :
          \E e \in pickle_file.full_terms[key] :
              Len(e) # 5 + config.n_extra

\* what a build from the source term list returns or raises
FromSource(cfg) ==
    IF cfg.field_format \notin KnownFormats THEN Raised("ValueError")
    ELSE LoadFile(cfg.lines, cfg.field_format, 5 + cfg.n_extra)

BaseEntries(key) ==
    IF key \in DOMAIN base.full_terms THEN base.full_terms[key] ELSE {}

\* C17: a registered short form has, under its exact token tuple, the
\* entries the key had before together with the entries of every match it
\* was registered with; nothing is dropped
C17_RegistrationUnitesEntries ==
    \A l \in learned :
        /\ <<l.x>> \in DOMAIN full_terms
        /\ full_terms[<<l.x>>] = BaseEntries(<<l.x>>) \cup l.entries

\* a short form was registered whose exact token tuple is a dictionary key
\* with other entries than the match
C17_Witness ==
    \E l \in learned :
        /\ BaseEntries(<<l.x>>) # {}
        /\ ~(l.entries \subseteq BaseEntries(<<l.x>>))
        /\ ~(BaseEntries(<<l.x>>) \subseteq l.entries)
        /\ full_terms[<<l.x>>] = BaseEntries(<<l.x>>) \cup l.entries

\* C18: an engine without abbreviation detection has, after any calls of
\* recognize_entities and reset, the stopwords and the index it was built
\* with, and yields for every sentence what it yielded when it was built
C18_StatelessWithoutAbbrevs ==
    ~abbrev_detection =>
        /\ stopwords = base.stopwords
        /\ term_first = base.term_first
        /\ full_terms = base.full_terms
        /\ \A s \in Sentences :
              recognize_entities(Self, s).out
                  = recognize_entities(BaseSelf, s).out

\* such an engine recognized sentences, among them one with a match that
\* is followed by a short form in parentheses
C18_Witness ==
    /\ ~abbrev_detection
    /\ op = "recognize"
    /\ recognize_entities(Self, <<"t", "(", "DM", ")">>).out # << >>

\* the loops of recognize_entities without the early exit: a length that
\* reaches beyond the sentence is passed over and the next one is tried
RECURSIVE FullScanLengths(_, _, _, _, _, _, _)
FullScanLengths(acc, sp, toks, normalized, i, lens, k) ==
    IF k > Len(lens) THEN acc
    ELSE IF i + lens[k] > Len(normalized)
    THEN FullScanLengths(acc, sp, toks, normalized, i, lens, k + 1)
    ELSE FullScanLengths(
             ScanLengths(acc, sp, toks, normalized, i, <<lens[k]>>, 1),
             sp, toks, normalized, i, lens, k + 1)

RECURSIVE FullScanTokens(_, _, _, _, _)
FullScanTokens(acc, sp, toks, normalized, i) ==
    IF i >= Len(normalized) THEN acc
    ELSE LET word == normalized[i + 1]
             tf   == acc.self.term_first
             lens == IF word \in DOMAIN tf THEN tf[word] ELSE << >>
         IN  FullScanTokens(FullScanLengths(acc, sp, toks, normalized, i,
                                            lens, 1),
                            sp, toks, normalized, i + 1)

FullScan(self, s) ==
    LET sp         == span_tokenize_words(s, self.abbrev_detection)
        toks       == [x \in 1..Len(sp) |-> sp[x][1]]
        normalized == normalize(self.normalizers, toks)
    IN  FullScanTokens([self |-> self, out |-> << >>, reg |-> {}],
                       sp, toks, normalized, 0)

\* strictly ascending integers >= 1
Ascending(lens) ==
    /\ \A k \in 1..Len(lens) : lens[k] >= 1
    /\ \A k \in 1..(Len(lens) - 1) : lens[k] < lens[k + 1]

\* C20: every value of first_token_map is strictly ascending and >= 1, and
\* every sentence yields with the early exit what it yields without it
C20_EarlyExitSkipsNothing ==
    /\ \A w \in DOMAIN term_first : Ascending(term_first[w])
    /\ \A s \in Sentences :
          recognize_entities(Self, s).out = FullScan(Self, s).out

\* a registration put a length in front of a longer one, and a sentence
\* ends where the longer one no longer fits
C20_Witness ==
    /\ learned # {}
    /\ \E w \in DOMAIN term_first :
          /\ term_first[w] = <<1, 2>>
          /\ w \in DOMAIN base.term_first
          /\ base.term_first[w] = <<2>>
          /\ \E s \in Sentences :
                /\ Len(s) = 1
                /\ recognize_entities(Self, s).out # << >>
                /\ normalize(normalizers, s) = <<w>>

(***************************************************************************)
(* Further properties of the span filters (SpecFilter).                    *)
(***************************************************************************)
\* the list with the entities at i and j exchanged (1-based)
Swap(es, i, j) ==
    [k \in 1..Len(es) |-> IF k = i THEN es[j] ELSE IF k = j THEN es[i]
                          ELSE es[k]]

\* the entities a filter leaves of a list, for the filter named by op
Survivors(es) ==
    Range(rm_any_overlaps(es,
                          op \in {"remove_sametype_overlaps",
                                  "remove_sametype_submatches"},
                          op \in {"remove_submatches",
                                  "remove_sametype_submatches"}))

\* as first stated: in whatever order the entities are given, the filter
\* leaves the entities it leaves of the sorted list
C19_AnyOrder ==
    op # "init" =>
        \A i, j \in 1..Len(ents) : Survivors(Swap(ents, i, j)) = Range(filtered)

\* C19: in whatever order entities of equal offsets are given in a list
\* sorted by (start, end), the filter leaves the same entities
C19_AnySortedOrder ==
    op # "init" =>
        \A i \in 1..(Len(ents) - 1) :
            sort_key(ents[i]) = sort_key(ents[i + 1])
                => Survivors(Swap(ents, i, i + 1)) = Range(filtered)

\* two different entities of equal offsets, of which the filter removed one
\* or both
C19_Witness ==
    /\ op # "init"
    /\ \E i \in 1..(Len(ents) - 1) :
          /\ sort_key(ents[i]) = sort_key(ents[i + 1])
          /\ ents[i] # ents[i + 1]
          /\ \/ ents[i] \notin Range(filtered)
             \/ ents[i + 1] \notin Range(filtered)



(***************************************************************************)
(* The undo record of a short form that is registered several times.       *)
(***************************************************************************)
\* the signature of a short form before a step (None when not registered)
Signature(toks, c) ==
    IF toks \in DOMAIN abbrevs THEN abbrevs[toks][c] ELSE None

\* what register_abbrev records for component c when it changes it first:
\* the value the component has before the change
FirstSignature(toks, c) ==
    LET norm == normalize(normalizers, toks)
    IN  IF c = 1 THEN Val(norm)
        ELSE IF c = 2
             THEN IF norm[1] \in DOMAIN term_first
                  THEN Val(term_first[norm[1]]) ELSE Pop
             ELSE IF toks \in DOMAIN full_terms
                  THEN Val(full_terms[toks]) ELSE Pop

\* a recognize_entities step keeps every recorded signature and records the
\* value before the change for a component it changes first
SignatureKept ==
    op' = "recognize" =>
        \A toks \in DOMAIN abbrevs' : \A c \in 1..3 :
            /\ Signature(toks, c) # None
                => abbrevs'[toks][c] = Signature(toks, c)
            /\ (Signature(toks, c) = None /\ abbrevs'[toks][c] # None)
                => abbrevs'[toks][c] = FirstSignature(toks, c)

\* reset() gives each component of a short form registered several times
\* the value its signature recorded
RestoredFromSignature ==
    op' = "reset" =>
        \A l \in learned : l.n > 1 =>
            LET toks == <<l.x>>
                norm == normalize(normalizers, toks)
                sig  == abbrevs[toks]
            IN  /\ sig[1] # None => norm \notin stopwords'
                /\ sig[2] = Pop => norm[1] \notin DOMAIN term_first'
                /\ (sig[2] # None /\ sig[2] # Pop)
                    => /\ norm[1] \in DOMAIN term_first'
                       /\ term_first'[norm[1]] = sig[2].v
                /\ sig[3] = Pop => toks \notin DOMAIN full_terms'
                /\ (sig[3] # None /\ sig[3] # Pop)
                    => /\ toks \in DOMAIN full_terms'
                       /\ full_terms'[toks] = sig[3].v

\* C21: when a short form is registered several times in one document, its
\* undo record keeps per component (stopword, first-token, full-term) the
\* signature of the first registration that changed the component, no later
\* registration overwrites a recorded signature, and reset() restores the
\* value each component had before its first change
C21_FirstSignatureRestored ==
    [][SignatureKept /\ RestoredFromSignature]_vars

\* the part of C21 about the undo record alone
C21_SignatureKept == [][SignatureKept]_vars


(***************************************************************************)
(* Dictionary matches across a registration.                               *)
(***************************************************************************)
\* the (span, TermEntry) pairs the engine emits for a sentence
Emitted(self, s) == Range(recognize_entities(self, s).out)

\* a recognize_entities call registered an abbreviation
Registers == op' = "recognize" /\ abbrevs' # abbrevs

\* C22: registering an abbreviation removes no dictionary match: every
\* (span, TermEntry) pair the engine would emit for a sentence before the
\* registration is still emitted for that sentence after it, within the
\* same document
C22_RegistrationKeepsMatches ==
    [][Registers =>
          \A s \in MatchSentences : Emitted(Self, s) \subseteq Emitted(Self', s)
      ]_vars


(***************************************************************************)
(* Rows of the term list with the same key (SpecMatch).                    *)
(***************************************************************************)
\* the rows of the term list that are indexed under the key
RowsOf(key) == {r \in 1..Len(termlist) : BaseRowKey(termlist[r]) = key}

\* two rows with the same key that disagree on the standard field f
Disagree(r1, r2, f) ==
    /\ r1 # r2
    /\ BaseRowKey(termlist[r1]) = BaseRowKey(termlist[r2])
    /\ termlist[r1].fields[f] # termlist[r2].fields[f]

\* C23 as stated: when two rows give the same key and disagree on a
\* standard field, the entry stored for the key has that field replaced by
\* a placeholder and not a row's own value
C23_DifferingFieldBlanked ==
    \A r1, r2 \in 1..Len(termlist) : \A f \in 1..n_fields :
        Disagree(r1, r2, f) =>
            \A e \in base.full_terms[BaseRowKey(termlist[r1])] :
                e[f] \notin {termlist[r1].fields[f], termlist[r2].fields[f]}

\* C23: when two rows give the same key and disagree on a standard field,
\* no field is blanked: the key holds one entry per distinct row, each with
\* its row's own value of every field
C23_RowsKeepOwnFields ==
    \A key \in DOMAIN base.full_terms :
        base.full_terms[key] = {termlist[r].fields : r \in RowsOf(key)}

\* an engine built from two rows with the same key that disagree on some
\* standard fields and agree on another, after a sentence was matched
C23_Witness ==
    /\ op = "recognize"
    /\ \E r1, r2 \in 1..Len(termlist) :
          /\ \E f \in 1..n_fields : Disagree(r1, r2, f)
          /\ \E f \in 1..n_fields :
                termlist[r1].fields[f] = termlist[r2].fields[f]
          /\ Cardinality(base.full_terms[BaseRowKey(termlist[r1])]) = 2


(***************************************************************************)
(* A run of the pipeline (run.py): the master ensures the cache artifact,  *)
(* starts the workers and feeds them pointers over one queue.              *)
(***************************************************************************)
\* the stop signal on the queue: q.put(None) / iter(q.get, None)
Sentinel == 0

\* the values of a force_reload setting in params
Settings == {"unset", "true", "false"}

\* the term list of the run, and the cache artifacts that may exist when
\* the run starts: none, the one of this term list, or one that was written
\* with another field count
RunLines == << Line(4, "t") >>
RunSource == LoadFile(RunLines, "4", 5)
StalePickle == LoadFile(<< Line(5, "t") >>, "4", 6)
RunPickles == {None, RunSource, StalePickle}

\* Params.parse_ER_settings for one recognizer: the termlist1_* settings
\* override the shared termlist_* settings, force_reload defaults to False
parse_ER_settings(p) ==
    [force_reload |->
        (IF p.termlist1_force_reload # "unset" THEN p.termlist1_force_reload
         ELSE p.termlist_force_reload) = "true"]

\* load_termlist reads the term list file
ReadsSource(cfg, pickled) == pickled = None \/ cfg.force_reload

\* load_termlist for the term list of the run; config.index is what
\* load_termlist_from_file builds from the file
RunLoad(cfg, pickled, skip_loading, writable) ==
    load_termlist_with([field_format |-> config.field_format,
                        n_extra |-> config.n_extra,
                        force_reload |-> cfg.force_reload],
                       pickled, skip_loading, writable, config.index)

InitRun ==
    /\ Construct(<<Row(<<"t">>, Entry1)>>, {}, << >>, FALSE)
    /\ learned = {}
    /\ op = "init"
    /\ sentence = << >>
    /\ out = << >>
    /\ NoDocument
    /\ NoFilter
    /\ NoSentence
    /\ config = [lines |-> RunLines, field_format |-> "4", n_extra |-> 0,
                 index |-> RunSource]
    /\ terms = None
    /\ pickle_file \in RunPickles
    /\ params \in [termlist_force_reload : Settings,
                   termlist1_force_reload : Settings]
    /\ n_workers \in 1..MaxWorkers
    /\ \E np \in 0..MaxPointers :
          master = [pc |-> "start", pointers |-> [k \in 1..np |-> k],
                    started |-> 0, fed |-> 0, stopped |-> 0, joined |-> 0,
                    processed |-> {}]
    /\ q = << >>
    /\ workers = [i \in 1..n_workers |->
                    [pc |-> "unstarted", params |-> None, taken |-> << >>,
                     processed |-> {}]]
    /\ builds = [master |-> 0, workers |-> << >>]

RunFrame == UNCHANGED <<engvars, op, docvars, filtvars, sentvars, config,
                        terms, n_workers>>

\* _run with n_workers <= 1: run_serial(master_conf) builds the recognizer
\* and processes every pointer in the master
run_serial ==
    /\ master.pc = "start"
    /\ n_workers <= 1
    /\ \E writable \in BOOLEAN, ok \in BOOLEAN :
          LET cfg == parse_ER_settings(params)
              r   == RunLoad(cfg, pickle_file, FALSE, writable)
          IN  /\ pickle_file' = r.pickle
              /\ builds' = IF ReadsSource(cfg, pickle_file)
                           THEN [builds EXCEPT !.master = @ + 1]
                           ELSE builds
              /\ master' = IF r.terms.k = "error" \/ ~ok
                           THEN [master EXCEPT !.pc = "crashed"]
                           ELSE [master EXCEPT
                                   !.pc = "done",
                                   !.processed = Range(master.pointers)]
    /\ UNCHANGED <<params, q, workers>>
    /\ RunFrame

\* _run with n_workers > 1, lines 59-65: ensure_cached_termlist, then
\* termlist_force_reload = False in params
ensure_cached_termlist ==
    /\ master.pc = "start"
    /\ n_workers > 1
    /\ \E writable \in BOOLEAN :
          LET cfg == parse_ER_settings(params)
              r   == RunLoad(cfg, pickle_file, TRUE, writable)
          IN  /\ pickle_file' = r.pickle
              /\ builds' = IF ReadsSource(cfg, pickle_file)
                           THEN [builds EXCEPT !.master = @ + 1]
                           ELSE builds
              /\ master' = [master EXCEPT
                              !.pc = IF r.terms.k = "error" THEN "crashed"
                                     ELSE "parallel"]
    /\ params' = [params EXCEPT !.termlist_force_reload = "false"]
    /\ UNCHANGED <<q, workers>>
    /\ RunFrame

\* mp.Process(target=run_worker, args=(params, q, i+1)).start()
start_worker ==
    /\ master.pc = "parallel"
    /\ master.started < n_workers
    /\ master' = [master EXCEPT !.started = @ + 1]
    /\ workers' = [workers EXCEPT ![master.started + 1] =
                      [@ EXCEPT !.pc = "start", !.params = params]]
    /\ UNCHANGED <<params, q, pickle_file, builds>>
    /\ RunFrame

\* q.put(pointer) for the next pointer of iter_pointers
put_pointer ==
    /\ master.pc = "parallel"
    /\ master.started = n_workers
    /\ master.fed < Len(master.pointers)
    /\ q' = Append(q, master.pointers[master.fed + 1])
    /\ master' = [master EXCEPT !.fed = @ + 1]
    /\ UNCHANGED <<params, workers, pickle_file, builds>>
    /\ RunFrame

\* a master that puts one stop signal for all workers
put_sentinel_once ==
    /\ master.pc = "parallel"
    /\ master.started = n_workers
    /\ master.fed = Len(master.pointers)
    /\ master.stopped < n_workers
    /\ q' = Append(q, Sentinel)
    /\ master' = [master EXCEPT !.stopped = n_workers]
    /\ UNCHANGED <<params, workers, pickle_file, builds>>
    /\ RunFrame

\* q.put(None), once per worker
put_sentinel ==
    /\ master.pc = "parallel"
    /\ master.started = n_workers
    /\ master.fed = Len(master.pointers)
    /\ master.stopped < n_workers
    /\ q' = Append(q, Sentinel)
    /\ master' = [master EXCEPT !.stopped = @ + 1]
    /\ UNCHANGED <<params, workers, pickle_file, builds>>
    /\ RunFrame

\* p.join() for the next worker: returns when its process has ended
join ==
    /\ master.pc = "parallel"
    /\ master.stopped = n_workers
    /\ master.joined < n_workers
    /\ workers[master.joined + 1].pc \in {"finished", "crashed"}
    /\ master' = [master EXCEPT
                    !.joined = @ + 1,
                    !.pc = IF master.joined + 1 = n_workers THEN "done"
                           ELSE "parallel"]
    /\ UNCHANGED <<params, q, workers, pickle_file, builds>>
    /\ RunFrame

\* run_worker: Router(**params) and PipelineServer(conf, lazy=False) build
\* the recognizer; an exception ends the worker
worker_setup(i) ==
    /\ workers[i].pc = "start"
    /\ \E writable \in BOOLEAN :
          LET cfg == parse_ER_settings(workers[i].params)
              r   == RunLoad(cfg, pickle_file, FALSE, writable)
          IN  /\ pickle_file' = r.pickle
              /\ builds' = IF ReadsSource(cfg, pickle_file)
                           THEN [builds EXCEPT !.workers = Append(@, i)]
                           ELSE builds
              /\ workers' = [workers EXCEPT ![i].pc =
                                IF r.terms.k = "error" THEN "crashed"
                                ELSE "idle"]
    /\ UNCHANGED <<params, q, master>>
    /\ RunFrame

\* the next item of iter(q.get, None): the sentinel ends the loop
get(i) ==
    /\ workers[i].pc = "idle"
    /\ q # << >>
    /\ q' = Tail(q)
    /\ workers' = [workers EXCEPT ![i] =
                      [@ EXCEPT !.taken = Append(@, Head(q)),
                                !.pc = IF Head(q) = Sentinel THEN "finished"
                                       ELSE "busy"]]
    /\ UNCHANGED <<params, master, pickle_file, builds>>
    /\ RunFrame

\* the loop body of run_serial in a worker for the pointer it took:
\* process, postfilter, export; an exception ends the worker
process_pointer(i) ==
    /\ workers[i].pc = "busy"
    /\ \E ok \in BOOLEAN :
          workers' = [workers EXCEPT ![i] =
                         IF ok
                         THEN [@ EXCEPT
                                 !.pc = "idle",
                                 !.processed =
                                     @ \cup {workers[i].taken[
                                                Len(workers[i].taken)]}]
                         ELSE [@ EXCEPT !.pc = "crashed"]]
    /\ UNCHANGED <<params, q, master, pickle_file, builds>>
    /\ RunFrame

MasterStep ==
    \/ run_serial
    \/ ensure_cached_termlist
    \/ start_worker
    \/ put_pointer
    \/ put_sentinel
    \/ join

WorkerStep(i) ==
    /\ i \in DOMAIN workers
    /\ \/ worker_setup(i)
       \/ get(i)
       \/ process_pointer(i)

NextRun ==
    \/ MasterStep
    \/ \E i \in 1..n_workers : WorkerStep(i)

SpecRun == InitRun /\ [][NextRun]_vars

\* the master and every worker are processes of their own: each of them
\* goes on as long as it can take a step
SpecRunLive ==
    /\ SpecRun
    /\ WF_vars(MasterStep)
    /\ \A i \in 1..MaxWorkers : WF_vars(WorkerStep(i))


(***************************************************************************)
(* Properties of a run (SpecRun).                                          *)
(***************************************************************************)
\* the workers that were started
Started == {i \in 1..n_workers : workers[i].pc # "unstarted"}

\* C24: in a run with more than one worker the term list is read from its
\* source at most once, by the master in ensure_cached_termlist; every
\* worker runs with force_reload off and takes its index from the cache
\* artifact, none rebuilds it from the term list
C24_BuiltOnceByMaster ==
    n_workers > 1 =>
        /\ builds.master <= 1
        /\ builds.workers = << >>
        /\ \A i \in Started :
              ~parse_ER_settings(workers[i].params).force_reload


\* the pointers of the run, and the items a worker took from the queue
Pointers == Range(master.pointers)
Taken(i) == workers[i].taken
TakenBy(item) == {i \in 1..n_workers : item \in Range(Taken(i))}
Sentinels(items) == Len(SelectSeq(items, LAMBDA x : x = Sentinel))

\* the queue holds the pointers not yet taken, in the order of
\* iter_pointers, followed by the stop signals not yet taken: all pointers
\* are enqueued before the first stop signal
PointersThenSentinels ==
    /\ \A k \in 1..Len(q) :
          (q[k] = Sentinel /\ k < Len(q)) => q[k + 1] = Sentinel
    /\ master.stopped > 0 => master.fed = Len(master.pointers)
    /\ Sentinels(q) + Cardinality(TakenBy(Sentinel)) = master.stopped
    /\ master.stopped <= n_workers
    /\ master.pc = "done" => master.stopped = n_workers

\* no pointer is taken twice, by one worker or by two
TakenOnce ==
    \A p \in Pointers :
        /\ Cardinality(TakenBy(p)) <= 1
        /\ \A i \in TakenBy(p) :
              Len(SelectSeq(Taken(i), LAMBDA x : x = p)) = 1
        /\ (p \in Range(q)) => TakenBy(p) = {}

\* a worker stops exactly when it took a stop signal, and it took one only
StopsOnSentinel ==
    \A i \in 1..n_workers :
        /\ Sentinels(Taken(i)) <= 1
        /\ workers[i].pc = "finished" <=> Sentinels(Taken(i)) = 1
        /\ workers[i].pc = "finished"
              => Taken(i)[Len(Taken(i))] = Sentinel

NoCrash == \A i \in 1..n_workers : workers[i].pc # "crashed"

\* every pointer was taken and processed by exactly one worker
ProcessedOnce ==
    \A p \in Pointers :
        Cardinality({i \in 1..n_workers : p \in workers[i].processed}) = 1

\* all workers ended on their stop signal and the joins returned
Joined ==
    /\ master.pc = "done"
    /\ \A i \in 1..n_workers : workers[i].pc = "finished"

NormTokens == {"t", "T", "7", "t7", "(", "U+4E00", "U+2102", "C"}

\* str.isdigit, str.isnumeric and re.compile(r'[^\w\s]+').fullmatch, as the
\* sets of the tokens they accept
isdigit == {"0", "7"}
isnumeric == {"0", "7", "U+4E00"}
punct == {"(", ")"}

\* the token list files, by the dash-separated parts of their path, with
\* the stripped lines of each
TargetFiles ==
    (<< "targets" >> :> {"t"}) @@ (<< "my", "targets" >> :> {"T", "("})

\* the tests of _load_mask, by the parts of the target
Test(target) ==
    CASE target = << "digits" >> -> isdigit
      [] target = << "numeric" >> -> isnumeric
      [] target = << "punct" >> -> punct
      [] OTHER -> TargetFiles[target]

\* a single argument read as the target, masked by "0"
load_mask_target_only(args) ==
    IF Len(args) = 1 THEN Mask("0", Test(args))
    ELSE Mask(IF Len(args) >= 1 THEN args[1] ELSE "0",
              Test(IF Len(args) >= 2 THEN Tail(args) ELSE << "digits" >>))

\* _load_mask(repl='0', target='digits', *args) on the arguments that
\* _load passes: the first is the replacement, the rest is the target,
\* whose parts are joined again
load_mask(args) ==
    Mask(IF Len(args) >= 1 THEN args[1] ELSE "0",
         Test(IF Len(args) >= 2 THEN Tail(args) ELSE << "digits" >>))

\* _load_unicode(form='NFKC')
load_unicode(args) == Unicode(IF Len(args) >= 1 THEN args[1] ELSE "NFKC")

\* _load(expr), on expr.split('-'): the first part names the loader, the
\* others are its arguments
load_expr(expr) ==
    CASE Head(expr) = "lowercase" -> Lowercase
      [] Head(expr) = "unicode" -> load_unicode(Tail(expr))
      [] Head(expr) = "mask" -> load_mask(Tail(expr))

\* load(names) for a sequence of names
load(names) == [k \in DOMAIN names |-> load_expr(names[k])]

\* the names of the steps, each split at its dashes
NormNames ==
    { << "lowercase" >>, << "unicode", "NFKC" >>, << "mask" >>,
      << "mask", "digits" >>, << "mask", "numeric" >>, << "mask", "punct" >>,
      << "mask", "targets" >>, << "mask", "0", "numeric" >>,
      << "mask", "0", "punct" >>, << "mask", "T", "targets" >>,
      << "mask", "X", "my", "targets" >> }

\* config.normalize: at most MaxSteps names
NormCascades == UNION {[1..n -> NormNames] : n \in 0..MaxSteps}

NormSentences == UNION {[1..n -> NormTokens] : n \in 0..MaxTokens}

\* the recognizer after EntityRecognizer.__init__ has loaded the cascade of
\* config.normalize, and the tokens of a sentence
InitNorm ==
    /\ \E names \in NormCascades :
          /\ config = [normalize |-> names]
          /\ normalizers = load(names)
    /\ sentence \in NormSentences
    /\ out = << >>
    /\ op = "init"
    /\ stopwords = {}
    /\ term_first = EmptyDict
    /\ full_terms = EmptyDict
    /\ abbrevs = EmptyDict
    /\ abbrev_detection = FALSE
    /\ termlist = << >>
    /\ stopword_lines = {}
    /\ base = [stopwords |-> {}, term_first |-> EmptyDict,
               full_terms |-> EmptyDict]
    /\ learned = {}
    /\ NoDocument
    /\ NoFilter
    /\ NoSentence
    /\ pickle_file = [k |-> "None"]
    /\ terms = [k |-> "None"]
    /\ NoRun

\* EntityRecognizer.normalize(tokens)
Normalize ==
    /\ op = "init"
    /\ out' = normalize(normalizers, sentence)
    /\ op' = "normalize"
    /\ UNCHANGED <<stopwords, term_first, full_terms, abbrevs, normalizers,
                   abbrev_detection, termlist, stopword_lines, base, learned,
                   sentence, docvars, filtvars, sentvars, loadvars, runvars>>

NextNorm == Normalize

SpecNorm == InitNorm /\ [][NextNorm]_vars

\* the cascade is the single step of this name
OneStep(expr) == op = "normalize" /\ config.normalize = << expr >>

\* the tokens of the target are replaced by p, all others are unchanged
MaskedBy(target, p) ==
    /\ Len(out) = Len(sentence)
    /\ \A k \in DOMAIN sentence :
          out[k] = IF sentence[k] \in Test(target) THEN p ELSE sentence[k]

\* the strings a step can put in the place of a token
Placeholders ==
    NormTokens \cup {"0", "X", "digits", "numeric", "punct", "targets"}

\* C25 as stated: the step mask-<target> replaces exactly the tokens that
\* fully match the target (digits, numeric, punct or a token list file) by
\* one fixed placeholder and leaves every other token unchanged
C25_MaskTarget ==
    \A expr \in NormNames :
        (OneStep(expr) /\ Head(expr) = "mask" /\ Len(expr) = 2)
            => \E p \in Placeholders : MaskedBy(Tail(expr), p)

\* C25 amended: the first argument is the placeholder and the rest is the
\* target: mask-<repl>-<target> replaces exactly the tokens that fully
\* match the target by repl, mask-<repl> replaces the digit tokens by repl
\* and mask replaces them by "0"; every other token is unchanged
C25_MaskReplTarget ==
    \A expr \in NormNames :
        (OneStep(expr) /\ Head(expr) = "mask")
            => MaskedBy(IF Len(expr) >= 3 THEN SubSeq(expr, 3, Len(expr))
                        ELSE << "digits" >>,
                        IF Len(expr) >= 2 THEN expr[2] ELSE "0")

\* mask-0-numeric has replaced the numeral and kept the letter
C25_Witness ==
    /\ OneStep(<< "mask", "0", "numeric" >>)
    /\ sentence = << "U+4E00", "t" >>
    /\ out = << "0", "t" >>

\* C26 as stated: for every cascade of lowercase, unicode-NFKC and mask
\* steps, normalizing a normalized token returns it unchanged
C26_CascadeIdempotent ==
    op = "normalize" => normalize(normalizers, out) = out

\* C26 amended: for every cascade of a single step lowercase, unicode-NFKC
\* or mask, normalizing a normalized token returns it unchanged
C26_OneStepIdempotent ==
    (op = "normalize" /\ Len(normalizers) = 1)
        => normalize(normalizers, out) = out

\* one lowercase step has changed a token
C26_Witness ==
    /\ OneStep(<< "lowercase" >>)
    /\ sentence = << "T" >>
    /\ out = << "t" >>


(***************************************************************************)
(* Applying a span filter to its own output (SpecFilter).                  *)
(***************************************************************************)
\* the arguments the four policies give to _rm_any_overlaps
Sametype == op \in {"remove_sametype_overlaps", "remove_sametype_submatches"}
Sub == op \in {"remove_submatches", "remove_sametype_submatches"}

\* the policy that made `filtered', applied to it once more
FilteredAgain == rm_any_overlaps(filtered, Sametype, Sub)

\* the two lists hold the same entities, each as often in the one as in the
\* other (the order of entities with equal offsets may differ)
SameEntities(es1, es2) ==
    \A e \in Range(es1) \cup Range(es2) :
        Cardinality({k \in DOMAIN es1 : es1[k] = e})
            = Cardinality({k \in DOMAIN es2 : es2[k] = e})

\* C27: each of the four policies, applied a second time to its own output
\* for a list sorted by (start, end), removes no further entity
C27_FilterIdempotent ==
    (op # "init" /\ Sorted(ents)) => SameEntities(FilteredAgain, filtered)

\* a policy has removed an entity from a sorted list and kept others
C27_Witness ==
    /\ op # "init"
    /\ Sorted(ents)
    /\ 0 < Len(filtered)
    /\ Len(filtered) < Len(ents)
    /\ SameEntities(FilteredAgain, filtered)


(***************************************************************************)
(* A short form in the call that introduces it (Spec).                     *)
(***************************************************************************)
\* in the matches of one call for the sentence s: wherever a match ends at
\* a token that is followed by ( X ), the token X is a match with the same
\* entry
ShortFormsMatched(self, s) ==
    LET sp   == span_tokenize_words(s, self.abbrev_detection)
        toks == [x \in 1..Len(sp) |-> sp[x][1]]
        m    == Range(recognize_entities(self, s).out)
    IN  \A a \in m :
            \A j \in 1..Len(sp) :
                (sp[j][3] = a[1][2] /\ AbbrevFollows(toks, j))
                    => <<<<sp[j + 2][2], sp[j + 2][3]>>, a[2]>> \in m

\* C28: with abbreviation detection, when a dictionary match is followed by
\* the tokens ( X ), the token X is yielded as a match in the same
\* recognize_entities call, with every entry of the match that precedes
\* the parentheses
C28_ShortFormMatchedInSameCall ==
    abbrev_detection => \A s \in Sentences : ShortFormsMatched(Self, s)

\* a call for "t ( DM )" on the engine as built yields nothing for DM
\* alone but yields DM, with the entry of t, after the match of t; the
\* engine has made that call
C28_Witness ==
    /\ abbrev_detection
    /\ op = "recognize"
    /\ normalizers = <<Lowercase>>
    /\ \E l \in learned : l.x = "DM" /\ Entry1 \in l.entries
    /\ recognize_entities(BaseSelf, <<"DM">>).out = << >>
    /\ LET m == Range(recognize_entities(BaseSelf,
                                         <<"t", "(", "DM", ")">>).out)
       IN  /\ <<<<0, 1>>, Entry1>> \in m
           /\ <<<<4, 6>>, Entry1>> \in m


(***************************************************************************)
(* Entity ids after Router.process (SpecSent).                             *)
(***************************************************************************)
\* C30: after process, with any number of entity recognizers, no two
\* entities of the content share an id (here: the entities of the first
\* sentence of an article)
C30_EntityIdsUnique ==
    \A i \in DOMAIN s_entities, k \in DOMAIN s_entities :
        i # k => s_entities[i].id_ # s_entities[k].id_

=============================================================================
